---- MODULE Spec2Model ----
(***************************************************************************)
(* Model of the context-aware notification engine of src/server.py: the    *)
(* three in-memory stores (preferences, last context, notification         *)
(* history), the WebSocket ConnectionManager and the request handlers that *)
(* mutate them.  The server runs on one asyncio event loop: the code       *)
(* between two awaits that can suspend is one atomic step, and every such  *)
(* await is a point where other handlers may run.                          *)
(***************************************************************************)
EXTENDS Integers, Sequences, FiniteSets, TLC

VARIABLES
    user_preferences_store,  \* dict user_id -> preferences          (server.py:46)
    user_last_context,       \* dict user_id -> context dict         (server.py:47)
    user_notifications,      \* dict user_id -> list of events       (server.py:48)
    active_connections,      \* manager.active_connections           (server.py:76)
    chan,                    \* each WebSocket: open flag, frames handed to it for the client
    wsh,                     \* each websocket_notifications handler: position and locals
    req,                     \* the HTTP request handlers suspended at an await: position, locals
    reply,                   \* the request that returned last: its locals and response
    clock,                   \* logical datetime.now(): stamps the events of one handler run
    generated                \* per user: the events appended to the history since it was last cleared

vars == <<user_preferences_store, user_last_context, user_notifications,
          active_connections, chan, wsh, req, reply, clock, generated>>

-----------------------------------------------------------------------------
(* Program constants *)

\* 0.25 km, in millimetres like the distances of calculate_distance
LOCATION_CHANGE_THRESHOLD_KM == 250000
TEMPERATURE_CHANGE_THRESHOLD_C == 1
NOTIFICATION_HISTORY_LIMIT == 50

(* Bounds of the model *)

MaxClock == 2
MaxClockHist == 61
MaxClockPush == 1
MaxClockOrder == 2
MaxClockRace == 2
MaxClockRead == 2
MaxClockNoProfile == 1
MaxClockValidate == 1
MaxClockBroadcast == 2
MaxClockPing == 4
MaxClockPut == 2
MaxClockGet == 52

None == "None"

Users == {"u1"}
Chans == {1, 2}
Reqs  == {1, 2}

-----------------------------------------------------------------------------
(* Python helpers *)

\* dict[k] = v
DictSet(d, k, v) == [x \in (DOMAIN d) \cup {k} |-> IF x = k THEN v ELSE d[x]]

\* del dict[k]
DictDel(d, k) == [x \in (DOMAIN d) \ {k} |-> d[x]]

EmptyDict == [x \in {} |-> None]

\* list[:n]
FirstN(s, n) == IF Len(s) > n THEN SubSeq(s, 1, n) ELSE s

\* list[-n:] for n > 0
LastN(s, n) == IF Len(s) > n THEN SubSeq(s, Len(s) - n + 1, Len(s)) ELSE s

Abs(x) == IF x < 0 THEN -x ELSE x

\* An "HH:MM" string is a sequence of one-character strings.
DigitVal == [c \in {"0","1","2","3","4","5","6","7","8","9"} |->
               CASE c = "0" -> 0 [] c = "1" -> 1 [] c = "2" -> 2 [] c = "3" -> 3
                 [] c = "4" -> 4 [] c = "5" -> 5 [] c = "6" -> 6 [] c = "7" -> 7
                 [] c = "8" -> 8 [] c = "9" -> 9]

\* str.split(":")[0]: the characters before the first colon
RECURSIVE SplitHead(_)
SplitHead(s) ==
    IF s = <<>> \/ Head(s) = ":" THEN <<>> ELSE <<Head(s)>> \o SplitHead(Tail(s))

\* str.split(":")[1:] joined again: the characters after the first colon
RECURSIVE SplitRest(_)
SplitRest(s) ==
    IF s = <<>> THEN <<>> ELSE IF Head(s) = ":" THEN Tail(s) ELSE SplitRest(Tail(s))

\* len(str.split(":")) - 1
Colons(s) == Cardinality({i \in 1..Len(s) : s[i] = ":"})

\* str.strip() as int() applies it (blanks only)
RECURSIVE LStrip(_)
LStrip(s) == IF s # <<>> /\ Head(s) = " " THEN LStrip(Tail(s)) ELSE s

RECURSIVE RStrip(_)
RStrip(s) ==
    IF s # <<>> /\ s[Len(s)] = " " THEN RStrip(SubSeq(s, 1, Len(s) - 1)) ELSE s

\* The literal int() reads after stripping blanks and an optional sign
Unsigned(s) ==
    LET t == RStrip(LStrip(s))
    IN  IF t # <<>> /\ Head(t) \in {"+", "-"} THEN Tail(t) ELSE t

IsDigit(c) == c \in DOMAIN DigitVal

\* int(str) accepts: blanks around, an optional sign, then decimal digits
\* with single underscores between digits (ValueError otherwise)
IsIntStr(s) ==
    LET u == Unsigned(s)
    IN  /\ u # <<>>
        /\ IsDigit(u[1]) /\ IsDigit(u[Len(u)])
        /\ \A i \in 1..Len(u) : IsDigit(u[i]) \/ u[i] = "_"
        /\ \A i \in 1..(Len(u) - 1) : ~(u[i] = "_" /\ u[i + 1] = "_")

\* The value of a run of decimal digits
RECURSIVE DigitsOf(_)
DigitsOf(s) ==
    IF s = <<>> THEN 0 ELSE 10 * DigitsOf(SubSeq(s, 1, Len(s) - 1)) + DigitVal[s[Len(s)]]

\* int(str) of an accepted string
IntOf(s) ==
    LET t == RStrip(LStrip(s))
        n == DigitsOf(SelectSeq(Unsigned(s), IsDigit))
    IN  IF Head(t) = "-" THEN -n ELSE n

-----------------------------------------------------------------------------
(* Utility functions *)

\* calculate_distance for two points on one meridian: the haversine formula
\* reduces to R * |dlat| in radians, 6371 * pi / 180 = 111.194927 km per
\* degree.  Latitudes are in 1e-4 degree, the result is in millimetres:
\* |dlat| * 111194927 \div 10000, split so that no product exceeds 2^31.
calculate_distance(lat1, lon1, lat2, lon2) ==
    Abs(lat2 - lat1) * 11119 + (Abs(lat2 - lat1) * 4927) \div 10000

get_time_period(hour) ==
    IF 5 <= hour /\ hour < 8 THEN "Early Morning"
    ELSE IF 8 <= hour /\ hour < 12 THEN "Morning"
    ELSE IF 12 <= hour /\ hour < 17 THEN "Afternoon"
    ELSE IF 17 <= hour /\ hour < 21 THEN "Evening"
    ELSE IF (21 <= hour /\ hour < 24) \/ (0 <= hour /\ hour < 2) THEN "Night"
    ELSE "Late Night"

MealEntryMatchesExactHour(current_hour, time_str) ==
    /\ IsIntStr(SplitHead(time_str))
    /\ Abs(current_hour - IntOf(SplitHead(time_str))) < 1

\* One iteration of the loop of get_meal_type: does this entry match?
MealEntryMatches(current_hour, time_str) ==
    /\ IsIntStr(SplitHead(time_str))
    /\ Abs(current_hour - IntOf(SplitHead(time_str))) <= 1

RECURSIVE get_meal_type_last_match(_, _)
get_meal_type_last_match(current_hour, meal_times) ==
    IF meal_times = <<>> THEN None
    ELSE IF get_meal_type_last_match(current_hour, Tail(meal_times)) # None
    THEN get_meal_type_last_match(current_hour, Tail(meal_times))
    ELSE IF MealEntryMatches(current_hour, Head(meal_times)[2]) THEN Head(meal_times)[1]
    ELSE None

\* meal_times is the dict in insertion order: a sequence of <<meal, time_str>>
RECURSIVE get_meal_type(_, _)
get_meal_type(current_hour, meal_times) ==
    IF meal_times = <<>> THEN None
    ELSE IF MealEntryMatches(current_hour, Head(meal_times)[2]) THEN Head(meal_times)[1]
    ELSE get_meal_type(current_hour, Tail(meal_times))

\* Python truthiness of an Optional[str]
Truthy(s) == s # None /\ s # ""

-----------------------------------------------------------------------------
(* Notification functions *)

\* round(distance_change, 2): kilometres with two decimals, kept in 1/100 km
Round2(mm) == (mm + 5000) \div 10000

LocationMovedAtAll(distance_change) == distance_change > 0

\* "if distance_change > LOCATION_CHANGE_THRESHOLD_KM"
LocationMoved(distance_change) == distance_change > LOCATION_CHANGE_THRESHOLD_KM

LocationCheck(old_context, new_context, ts) ==
    IF /\ "location" \in DOMAIN new_context
       /\ "location" \in DOMAIN old_context
       /\ LocationMoved(calculate_distance(
              old_context.location.latitude, old_context.location.longitude,
              new_context.location.latitude, new_context.location.longitude))
    THEN << [type |-> "location_change",
             distance_moved |-> Round2(calculate_distance(
                 old_context.location.latitude, old_context.location.longitude,
                 new_context.location.latitude, new_context.location.longitude)),
             timestamp |-> ts] >>
    ELSE <<>>

TimePeriodCheck(old_context, new_context, ts) ==
    IF /\ "time_hour" \in DOMAIN new_context
       /\ "time_hour" \in DOMAIN old_context
       /\ get_time_period(old_context.time_hour) # get_time_period(new_context.time_hour)
    THEN << [type |-> "time_period_change",
             old_period |-> get_time_period(old_context.time_hour),
             new_period |-> get_time_period(new_context.time_hour),
             timestamp |-> ts] >>
    ELSE <<>>

MealCheckFiresAnyChange(meal_type, old_meal_type) == meal_type # old_meal_type

\* "if meal_type and meal_type != old_meal_type"
MealCheckFires(meal_type, old_meal_type) == Truthy(meal_type) /\ meal_type # old_meal_type

MealCheck(old_context, new_context, preferences, ts) ==
    IF /\ "time_hour" \in DOMAIN new_context
       /\ "time_hour" \in DOMAIN old_context
       /\ "meal_times" \in DOMAIN preferences
       /\ MealCheckFires(get_meal_type(new_context.time_hour, preferences.meal_times),
                         get_meal_type(old_context.time_hour, preferences.meal_times))
    THEN << [type |-> "meal_time",
             meal_type |-> get_meal_type(new_context.time_hour, preferences.meal_times),
             timestamp |-> ts] >>
    ELSE <<>>

\* The default of weather_transitions.get: the f-string
\* "Weather changed from {old_weather} to {new_weather}." as its pieces
WeatherFallback(old_weather, new_weather) ==
    [message |-> <<"Weather changed from ", old_weather, " to ", new_weather, ".">>,
     suggestion |-> "check_recommendations"]

get_weather_activity_impact_generic(old_weather, new_weather) ==
    WeatherFallback(old_weather, new_weather)

\* get_weather_activity_impact: the table weather_transitions, then the default
get_weather_activity_impact(old_weather, new_weather) ==
    CASE old_weather = "sunny" /\ new_weather = "rainy" ->
           [message |-> <<"Weather changed to rainy. Consider indoor activities.">>,
            suggestion |-> "indoor"]
      [] old_weather = "sunny" /\ new_weather = "snowy" ->
           [message |-> <<"Snow has started! Winter activities are now available.">>,
            suggestion |-> "winter_sports"]
      [] old_weather = "rainy" /\ new_weather = "sunny" ->
           [message |-> <<"Rain has stopped! Great time for outdoor activities.">>,
            suggestion |-> "outdoor"]
      [] old_weather = "snowy" /\ new_weather = "sunny" ->
           [message |-> <<"Snow has cleared. Enjoy outdoor activities!">>,
            suggestion |-> "outdoor"]
      [] old_weather = "cloudy" /\ new_weather = "sunny" ->
           [message |-> <<"Sun is out! Perfect for outdoor exploration.">>,
            suggestion |-> "outdoor"]
      [] old_weather = "sunny" /\ new_weather = "cloudy" ->
           [message |-> <<"Weather is now cloudy but still good for activities.">>,
            suggestion |-> "outdoor"]
      [] OTHER -> WeatherFallback(old_weather, new_weather)

WeatherCheck(old_context, new_context, ts) ==
    IF /\ "weather" \in DOMAIN new_context
       /\ "weather" \in DOMAIN old_context
       /\ old_context.weather # new_context.weather
    THEN << [type |-> "weather_change",
             message |-> get_weather_activity_impact(old_context.weather,
                                                     new_context.weather).message,
             old_weather |-> old_context.weather,
             new_weather |-> new_context.weather,
             activity_suggestion |->
                 get_weather_activity_impact(old_context.weather,
                                             new_context.weather).suggestion,
             timestamp |-> ts] >>
    ELSE <<>>

TemperatureChangedAbove(temp_diff) == temp_diff > TEMPERATURE_CHANGE_THRESHOLD_C

\* "if temp_diff >= TEMPERATURE_CHANGE_THRESHOLD_C"
TemperatureChanged(temp_diff) == temp_diff >= TEMPERATURE_CHANGE_THRESHOLD_C

TemperatureCheck(old_context, new_context, ts) ==
    IF /\ "temperature" \in DOMAIN new_context
       /\ "temperature" \in DOMAIN old_context
       /\ TemperatureChanged(Abs(new_context.temperature - old_context.temperature))
    THEN << [type |-> "temperature_change",
             old_temperature |-> old_context.temperature,
             new_temperature |-> new_context.temperature,
             timestamp |-> ts] >>
    ELSE <<>>

DiffNotificationsWeatherLast(old_context, new_context, preferences, ts) ==
    LocationCheck(old_context, new_context, ts)
      \o TimePeriodCheck(old_context, new_context, ts)
      \o MealCheck(old_context, new_context, preferences, ts)
      \o TemperatureCheck(old_context, new_context, ts)
      \o WeatherCheck(old_context, new_context, ts)

\* The list detect_context_changes builds when a previous context is stored
DiffNotifications(old_context, new_context, preferences, ts) ==
    LocationCheck(old_context, new_context, ts)
      \o TimePeriodCheck(old_context, new_context, ts)
      \o MealCheck(old_context, new_context, preferences, ts)
      \o WeatherCheck(old_context, new_context, ts)
      \o TemperatureCheck(old_context, new_context, ts)

detect_notifications_default_baseline(last_context, user_id, new_context, preferences, ts) ==
    DiffNotifications(IF user_id \in DOMAIN last_context THEN last_context[user_id]
                      ELSE [time_hour |-> 0],
                      new_context, preferences, ts)

\* The list detect_context_changes returns
detect_notifications(last_context, user_id, new_context, preferences, ts) ==
    IF user_id \notin DOMAIN last_context THEN <<>>
    ELSE DiffNotifications(last_context[user_id], new_context, preferences, ts)

\* A store that keeps the fields of the previous context the new one lacks
StoreContextMerged(last_context, user_id, new_context) ==
    DictSet(last_context, user_id,
            IF user_id \notin DOMAIN last_context THEN new_context
            ELSE [f \in DOMAIN last_context[user_id] \cup DOMAIN new_context |->
                     IF f \in DOMAIN new_context THEN new_context[f]
                     ELSE last_context[user_id][f]])

\* "user_last_context[user_id] = new_context", on the first context and
\* after the checks
StoreContext(last_context, user_id, new_context) ==
    DictSet(last_context, user_id, new_context)

\* user_notifications after "Store in history" of detect_context_changes
HistoryExtend(notifs, user_id, notifications) ==
    IF notifications = <<>> THEN notifs
    ELSE DictSet(notifs, user_id,
                 LastN((IF user_id \in DOMAIN notifs THEN notifs[user_id] ELSE <<>>)
                          \o notifications,
                       NOTIFICATION_HISTORY_LIMIT))

\* user_notifications after store_notification
store_notification(notifs, user_id, notification) ==
    DictSet(notifs, user_id,
            LastN(Append(IF user_id \in DOMAIN notifs THEN notifs[user_id] ELSE <<>>,
                         notification),
                  NOTIFICATION_HISTORY_LIMIT))

-----------------------------------------------------------------------------
(* ConnectionManager *)

disconnect_clear(conns, user_id) ==
    IF user_id \in DOMAIN conns THEN EmptyDict ELSE conns

\* ConnectionManager.disconnect: the registry after disconnect(user_id)
disconnect(conns, user_id) ==
    IF user_id \in DOMAIN conns THEN DictDel(conns, user_id) ELSE conns

\* The call of websocket.send_json: the frame is handed to an open socket
\* in call order; on a closed socket the call raises.
PushFrame(ch, c, frame) ==
    IF ch[c].open THEN [ch EXCEPT ![c].delivered = Append(@, frame)] ELSE ch

AfterPushKeep(conns, user_id, ok) == conns

\* The registry after send_notification's await returned or raised
AfterPush(conns, user_id, ok) ==
    IF ok THEN conns ELSE disconnect(conns, user_id)

-----------------------------------------------------------------------------
(* Request handlers.  A handler that suspends at an await occupies a slot *)
(* of req until it returns; reply is the last request that returned, with *)
(* its locals and its response.                                           *)

IdleReq == [pc |-> "idle", op |-> "none", user_id |-> None,
            preferences |-> EmptyDict, new_context |-> EmptyDict,
            start_context |-> EmptyDict, first |-> FALSE, old_context |-> EmptyDict,
            notifications |-> <<>>, idx |-> 0, ws |-> 0, ok |-> FALSE,
            results |-> <<>>, known |-> FALSE, resp |-> [status |-> 0],
            keys |-> <<>>, exclude_user |-> None, count |-> 0,
            location |-> EmptyDict, current_hour |-> 0, weather_data |-> EmptyDict,
            meal_type |-> None, restaurant_search_terms |-> <<>>,
            restaurants |-> <<>>, meal_search |-> "none",
            activity_search_terms |-> <<>>, activities |-> <<>>,
            activity_search |-> "none", recommendations |-> <<>>]

\* Slots are handed out lowest first
Free(r) == req[r].pc = "idle" /\ \A r2 \in Reqs : r2 < r => req[r2].pc # "idle"

\* A handler that returned without ever looking at its locals again
Done(op, user_id, resp) ==
    [IdleReq EXCEPT !.pc = "done", !.op = op, !.user_id = user_id, !.resp = resp,
                    !.known = user_id \in DOMAIN user_preferences_store]

\* The stored form of a UserPreferences body (updated_at is left out)
StoredPreferences(p) ==
    [activity_type |-> p.activity_type, meal_times |-> p.meal_times,
     preferred_cuisines |-> p.preferred_cuisines]

\* LocationData: latitude and longitude within their ranges (1e-4 degree)
LocationDataValid(loc) ==
    /\ -900000 <= loc.latitude /\ loc.latitude <= 900000
    /\ -1800000 <= loc.longitude /\ loc.longitude <= 1800000

\* The body of the loop of validate_meal_times for one item
MealTimeValid(meal, time) ==
    /\ meal \in {"breakfast", "lunch", "dinner"}
    /\ Colons(time) = 1
    /\ IsIntStr(SplitHead(time)) /\ IsIntStr(SplitRest(time))
    /\ 0 <= IntOf(SplitHead(time)) /\ IntOf(SplitHead(time)) <= 23
    /\ 0 <= IntOf(SplitRest(time)) /\ IntOf(SplitRest(time)) <= 59

\* The validation of a UserPreferences body
UserPreferencesValid(p) ==
    /\ p.user_id # ""
    /\ p.activity_type \in {"indoor", "outdoor"}
    /\ \A i \in 1..Len(p.meal_times) :
          MealTimeValid(p.meal_times[i][1], p.meal_times[i][2])

\* The validation of a ContextUpdate body
ContextUpdateValid(user_id, location, time_hour) ==
    /\ user_id # ""
    /\ location # <<>> => LocationDataValid(location[1])
    /\ 0 <= time_hour /\ time_hour <= 23

\* A body that fails validation is answered 422 before the handler runs
Rejected(op, user_id) ==
    /\ reply' = Done(op, user_id, [status |-> 422])
    /\ UNCHANGED <<user_preferences_store, user_last_context, user_notifications,
                   active_connections, chan, wsh, req, clock, generated>>

\* POST /api/preferences
save_preferences(p) ==
    IF ~UserPreferencesValid(p) THEN Rejected("save_preferences", p.user_id)
    ELSE /\ user_preferences_store' =
               DictSet(user_preferences_store, p.user_id, StoredPreferences(p))
         /\ reply' = Done("save_preferences", p.user_id, [status |-> 200])
         /\ UNCHANGED <<user_last_context, user_notifications, active_connections,
                        chan, wsh, req, clock, generated>>

\* DELETE /api/preferences/{user_id}
delete_preferences(user_id) ==
    /\ IF user_id \notin DOMAIN user_preferences_store
       THEN /\ reply' = Done("delete_preferences", user_id, [status |-> 404])
            /\ UNCHANGED <<user_preferences_store, user_last_context,
                           user_notifications, generated>>
       ELSE /\ user_preferences_store' = DictDel(user_preferences_store, user_id)
            /\ user_last_context' = DictDel(user_last_context, user_id)
            /\ user_notifications' = DictDel(user_notifications, user_id)
            /\ generated' = [generated EXCEPT ![user_id] = <<>>]
            /\ reply' = Done("delete_preferences", user_id, [status |-> 200])
    /\ UNCHANGED <<active_connections, chan, wsh, req, clock>>

ContextResponseFailsOnPush(q) ==
    IF \A i \in 1..Len(q.notifications) : i <= Len(q.results) /\ q.results[i].ok
    THEN [status |-> 200, context_updated |-> q.new_context,
          notifications_generated |-> Len(q.notifications),
          notifications |-> q.notifications]
    ELSE [status |-> 500]

\* The response of update_user_context
ContextResponse(q) ==
    [status |-> 200, context_updated |-> q.new_context,
     notifications_generated |-> Len(q.notifications),
     notifications |-> q.notifications]

\* The loop "for notification in notifications: await manager.send_notification"
\* from position i on, with registry conns: send_notification returns False
\* without suspending while the user has no entry; otherwise the handler
\* suspends in send_json on the socket registered at that moment.
SendLoop(r, q, i, conns) ==
    IF i <= Len(q.notifications) /\ q.user_id \in DOMAIN conns
    THEN /\ chan' = PushFrame(chan, conns[q.user_id], q.notifications[i])
         /\ req' = [req EXCEPT ![r] =
                      [q EXCEPT !.pc = "cu_send", !.idx = i, !.ws = conns[q.user_id],
                                !.ok = chan[conns[q.user_id]].open]]
         /\ reply' = reply
    ELSE /\ chan' = chan
         /\ req' = [req EXCEPT ![r] = IdleReq]
         /\ reply' = [q EXCEPT !.pc = "done", !.idx = 0, !.ws = 0, !.ok = FALSE,
                               !.results = q.results \o
                                   [k \in 1..(Len(q.notifications) - i + 1) |->
                                       [ws |-> 0, ok |-> FALSE]],
                               !.resp = ContextResponse(q)]

BaselineAtStart(q) == q.start_context

\* "old_context = user_last_context[user_id]": the table the diff reads is
\* the one in force when detect_context_changes runs
Baseline(q) == user_last_context

\* update_user_context from the completed new_context on:
\* detect_context_changes (no await inside: one step) and the first push
DetectAndSend(r, q) ==
    LET notifications == detect_notifications(Baseline(q), q.user_id,
                                              q.new_context, q.preferences, clock)
        q2 == [q EXCEPT !.notifications = notifications,
                        !.first = q.user_id \notin DOMAIN Baseline(q),
                        !.old_context = IF q.user_id \in DOMAIN Baseline(q)
                                        THEN Baseline(q)[q.user_id] ELSE EmptyDict]
    IN  /\ user_last_context' = StoreContext(user_last_context, q.user_id, q.new_context)
        /\ user_notifications' = HistoryExtend(user_notifications, q.user_id, notifications)
        /\ generated' = [generated EXCEPT ![q.user_id] = @ \o notifications]
        /\ clock' = IF notifications = <<>> THEN clock ELSE clock + 1
        /\ SendLoop(r, q2, 1, active_connections)
        /\ UNCHANGED <<user_preferences_store, active_connections, wsh>>

ContextNotFoundAfterBaseline(user_id) ==
    /\ reply' = Done("update_user_context", user_id, [status |-> 404])
    /\ user_last_context' = DictSet(user_last_context, user_id, EmptyDict)
    /\ UNCHANGED <<user_preferences_store, user_notifications,
                   active_connections, chan, wsh, req, clock, generated>>

\* "if user_id not in user_preferences_store: raise HTTPException(404)",
\* the first statement of update_user_context
ContextNotFound(user_id) ==
    /\ reply' = Done("update_user_context", user_id, [status |-> 404])
    /\ UNCHANGED <<user_preferences_store, user_last_context, user_notifications,
                   active_connections, chan, wsh, req, clock, generated>>

\* POST /api/context/update, up to its first suspension.  location is <<>>
\* (absent) or <<loc>>; time_hour is current_time or the hour of the clock.
update_user_context(r, user_id, location, time_hour) ==
    /\ Free(r)
    /\ IF ~ContextUpdateValid(user_id, location, time_hour)
       THEN Rejected("update_user_context", user_id)
       ELSE IF user_id \notin DOMAIN user_preferences_store
       THEN ContextNotFound(user_id)
       ELSE IF location # <<>>
       THEN \* await get_weather(...)
            /\ req' = [req EXCEPT ![r] =
                         [IdleReq EXCEPT !.pc = "cu_weather", !.op = "update_user_context",
                                         !.user_id = user_id, !.known = TRUE,
                                         !.preferences = user_preferences_store[user_id],
                                         !.start_context = user_last_context,
                                         !.new_context = [location |-> location[1],
                                                          time_hour |-> time_hour]]]
            /\ UNCHANGED <<user_preferences_store, user_last_context, user_notifications,
                           active_connections, chan, wsh, reply, clock, generated>>
       ELSE DetectAndSend(r, [IdleReq EXCEPT !.op = "update_user_context",
                                             !.user_id = user_id, !.known = TRUE,
                                             !.preferences = user_preferences_store[user_id],
                                             !.start_context = user_last_context,
                                             !.new_context = [time_hour |-> time_hour]])

\* get_weather returned weather_data: the handler completes new_context
weather_returns(r, weather, temperature) ==
    /\ req[r].pc = "cu_weather"
    /\ DetectAndSend(r, [req[r] EXCEPT !.new_context =
                            [location |-> req[r].new_context.location,
                             weather |-> weather, temperature |-> temperature,
                             time_hour |-> req[r].new_context.time_hour]])

\* get_weather raised (timeout, transport error) or returned None (non-200
\* status): the handler ends with an unhandled exception
weather_fails(r) ==
    /\ req[r].pc = "cu_weather"
    /\ req' = [req EXCEPT ![r] = IdleReq]
    /\ reply' = Done("update_user_context", req[r].user_id, [status |-> 500])
    /\ UNCHANGED <<user_preferences_store, user_last_context, user_notifications,
                   active_connections, chan, wsh, clock, generated>>

\* send_notification resumes in update_user_context: the push returned or
\* raised; on an exception the user's entry is removed; then the loop goes on
context_send_returns(r) ==
    /\ req[r].pc = "cu_send"
    /\ active_connections' = AfterPush(active_connections, req[r].user_id, req[r].ok)
    /\ SendLoop(r, [req[r] EXCEPT !.results = Append(@, [ws |-> req[r].ws, ok |-> req[r].ok])],
                req[r].idx + 1,
                AfterPush(active_connections, req[r].user_id, req[r].ok))
    /\ UNCHANGED <<user_preferences_store, user_last_context, user_notifications,
                   wsh, clock, generated>>

\* The changes list of update_preferences; a dict compares by its items
DictItems(seq) == {seq[i] : i \in 1..Len(seq)}

PreferenceChanges(old_preferences, p) ==
    (IF old_preferences.activity_type # p.activity_type
     THEN <<"activity preference changed">> ELSE <<>>)
    \o (IF DictItems(old_preferences.meal_times) # DictItems(p.meal_times)
        THEN <<"meal times updated">> ELSE <<>>)
    \o (IF old_preferences.preferred_cuisines # p.preferred_cuisines
        THEN <<"cuisine preferences updated">> ELSE <<>>)

PreferencesResponse(changes) ==
    [status |-> 200, notification_sent |-> Len(changes) > 0, changes_detected |-> changes]

StoreAndRespondIfSent(r, q) ==
    /\ user_notifications' = IF q.results[1].ok
                             THEN store_notification(user_notifications, q.user_id,
                                                     q.notifications[1])
                             ELSE user_notifications
    /\ generated' = IF q.results[1].ok
                    THEN [generated EXCEPT ![q.user_id] = Append(@, q.notifications[1])]
                    ELSE generated
    /\ req' = [req EXCEPT ![r] = IdleReq]
    /\ reply' = [q EXCEPT !.pc = "done", !.ws = 0, !.ok = FALSE,
                          !.resp = PreferencesResponse(q.notifications[1].changes)]

\* The end of update_preferences: store_notification, then the response
StoreAndRespond(r, q) ==
    /\ user_notifications' = store_notification(user_notifications, q.user_id, q.notifications[1])
    /\ generated' = [generated EXCEPT ![q.user_id] = Append(@, q.notifications[1])]
    /\ req' = [req EXCEPT ![r] = IdleReq]
    /\ reply' = [q EXCEPT !.pc = "done", !.ws = 0, !.ok = FALSE,
                          !.resp = PreferencesResponse(q.notifications[1].changes)]

\* PUT /api/preferences/{user_id}, up to its first suspension
update_preferences(r, user_id, p) ==
    /\ Free(r)
    /\ IF ~UserPreferencesValid(p)
       THEN Rejected("update_preferences", user_id)
       ELSE IF user_id \notin DOMAIN user_preferences_store
       THEN /\ reply' = Done("update_preferences", user_id, [status |-> 404])
            /\ UNCHANGED <<user_preferences_store, user_notifications, chan, req,
                           clock, generated>>
       ELSE LET changes == PreferenceChanges(user_preferences_store[user_id], p)
                q == [IdleReq EXCEPT !.op = "update_preferences", !.user_id = user_id,
                                     !.known = TRUE,
                                     !.notifications =
                                        << [type |-> "preferences_updated",
                                            changes |-> changes, timestamp |-> clock] >>]
            IN  /\ user_preferences_store' =
                      DictSet(user_preferences_store, user_id, StoredPreferences(p))
                /\ IF changes = <<>>
                   THEN /\ reply' = Done("update_preferences", user_id,
                                         PreferencesResponse(changes))
                        /\ UNCHANGED <<user_notifications, chan, req, clock, generated>>
                   ELSE /\ clock' = clock + 1
                        /\ IF user_id \in DOMAIN active_connections
                           THEN \* await send_json(...)
                                /\ chan' = PushFrame(chan, active_connections[user_id],
                                                     q.notifications[1])
                                /\ req' = [req EXCEPT ![r] =
                                             [q EXCEPT !.pc = "pu_send",
                                                       !.ws = active_connections[user_id],
                                                       !.ok = chan[active_connections[user_id]].open]]
                                /\ UNCHANGED <<user_notifications, generated, reply>>
                           ELSE /\ chan' = chan
                                /\ StoreAndRespond(r, [q EXCEPT !.results =
                                                          << [ws |-> 0, ok |-> FALSE] >>])
    /\ UNCHANGED <<user_last_context, active_connections, wsh>>

\* send_notification resumes in update_preferences, then store_notification
preferences_send_returns(r) ==
    /\ req[r].pc = "pu_send"
    /\ active_connections' = AfterPush(active_connections, req[r].user_id, req[r].ok)
    /\ StoreAndRespond(r, [req[r] EXCEPT !.results = << [ws |-> req[r].ws, ok |-> req[r].ok] >>])
    /\ UNCHANGED <<user_preferences_store, user_last_context, chan, wsh, clock>>

get_notification_history_oldest(user_id, limit) ==
    /\ reply' = Done("get_notification_history", user_id,
                     IF limit < 1 \/ limit > 100 THEN [status |-> 422]
                     ELSE IF user_id \notin DOMAIN user_notifications
                     THEN [status |-> 200, notifications |-> <<>>, total |-> 0, showing |-> 0]
                     ELSE [status |-> 200,
                           notifications |->
                              SubSeq(user_notifications[user_id], 1,
                                     IF Len(user_notifications[user_id]) > limit
                                     THEN limit ELSE Len(user_notifications[user_id])),
                           total |-> Len(user_notifications[user_id]),
                           showing |-> Len(LastN(user_notifications[user_id], limit))])
    /\ UNCHANGED <<user_preferences_store, user_last_context, user_notifications,
                   active_connections, chan, wsh, req, clock, generated>>

\* GET /api/notifications/{user_id}; limit is Query(20, ge=1, le=100)
get_notification_history(user_id, limit) ==
    /\ reply' = Done("get_notification_history", user_id,
                     IF limit < 1 \/ limit > 100 THEN [status |-> 422]
                     ELSE IF user_id \notin DOMAIN user_notifications
                     THEN [status |-> 200, notifications |-> <<>>, total |-> 0, showing |-> 0]
                     ELSE [status |-> 200,
                           notifications |-> LastN(user_notifications[user_id], limit),
                           total |-> Len(user_notifications[user_id]),
                           showing |-> Len(LastN(user_notifications[user_id], limit))])
    /\ UNCHANGED <<user_preferences_store, user_last_context, user_notifications,
                   active_connections, chan, wsh, req, clock, generated>>

\* DELETE /api/notifications/{user_id}
clear_notification_history(user_id) ==
    /\ user_notifications' = IF user_id \in DOMAIN user_notifications
                             THEN DictSet(user_notifications, user_id, <<>>)
                             ELSE user_notifications
    /\ generated' = [generated EXCEPT ![user_id] = <<>>]
    /\ reply' = Done("clear_notification_history", user_id,
                     [status |-> 200,
                      notifications_cleared |->
                          IF user_id \in DOMAIN user_notifications
                          THEN Len(user_notifications[user_id]) ELSE 0])
    /\ UNCHANGED <<user_preferences_store, user_last_context, active_connections,
                   chan, wsh, req, clock>>

-----------------------------------------------------------------------------
(* WebSocket endpoint *)

websocket_connect_keep_first(c, user_id) ==
    /\ wsh[c].pc = "new"
    /\ chan[c].open
    /\ active_connections' = IF user_id \in DOMAIN active_connections
                             THEN active_connections
                             ELSE DictSet(active_connections, user_id, c)
    /\ chan' = PushFrame(chan, c, [type |-> "connection_established", timestamp |-> clock])
    /\ wsh' = [wsh EXCEPT ![c] = [pc |-> "welcome", user_id |-> user_id, ok |-> chan[c].open]]
    /\ UNCHANGED <<user_preferences_store, user_last_context, user_notifications,
                   req, reply, clock, generated>>

websocket_connect_silent(c, user_id) ==
    /\ wsh[c].pc = "new"
    /\ chan[c].open
    /\ active_connections' = DictSet(active_connections, user_id, c)
    /\ wsh' = [wsh EXCEPT ![c] = [pc |-> "welcome", user_id |-> user_id, ok |-> chan[c].open]]
    /\ UNCHANGED <<user_preferences_store, user_last_context, user_notifications,
                   chan, req, reply, clock, generated>>

\* websocket_notifications up to its first suspension after accept():
\* manager.connect stores the socket, then the welcome message is pushed
websocket_connect(c, user_id) ==
    /\ wsh[c].pc = "new"
    /\ chan[c].open
    /\ active_connections' = DictSet(active_connections, user_id, c)
    /\ chan' = PushFrame(chan, c, [type |-> "connection_established", timestamp |-> clock])
    /\ wsh' = [wsh EXCEPT ![c] = [pc |-> "welcome", user_id |-> user_id, ok |-> chan[c].open]]
    /\ UNCHANGED <<user_preferences_store, user_last_context, user_notifications,
                   req, reply, clock, generated>>

\* The welcome push returned or raised; the handler enters its receive loop
websocket_welcome_returns(c) ==
    /\ wsh[c].pc = "welcome"
    /\ active_connections' = AfterPush(active_connections, wsh[c].user_id, wsh[c].ok)
    /\ wsh' = [wsh EXCEPT ![c].pc = "receive", ![c].ok = FALSE]
    /\ UNCHANGED <<user_preferences_store, user_last_context, user_notifications,
                   chan, req, reply, clock, generated>>

\* The client goes away: the socket is closed from then on
client_close(c) ==
    /\ wsh[c].pc \in {"welcome", "receive"}
    /\ chan[c].open
    /\ chan' = [chan EXCEPT ![c].open = FALSE]
    /\ UNCHANGED <<user_preferences_store, user_last_context, user_notifications,
                   active_connections, wsh, req, reply, clock, generated>>

\* receive_text raises WebSocketDisconnect: manager.disconnect(user_id)
websocket_disconnected(c) ==
    /\ wsh[c].pc = "receive"
    /\ ~chan[c].open
    /\ chan[c].inbox = <<>>
    /\ active_connections' = disconnect(active_connections, wsh[c].user_id)
    /\ wsh' = [wsh EXCEPT ![c].pc = "closed"]
    /\ UNCHANGED <<user_preferences_store, user_last_context, user_notifications,
                   chan, req, reply, clock, generated>>

\* The client sends a text message; it waits in the socket until the
\* handler's receive_text takes it
client_send(c, data) ==
    /\ wsh[c].pc \in {"welcome", "receive", "pong_send"}
    /\ chan[c].open
    /\ chan' = [chan EXCEPT ![c].inbox = Append(@, data)]
    /\ clock' = clock + 1
    /\ UNCHANGED <<user_preferences_store, user_last_context, user_notifications,
                   active_connections, wsh, req, reply, generated>>

websocket_receive_ignore_ping(c) ==
    /\ wsh[c].pc = "receive"
    /\ chan[c].inbox # <<>>
    /\ chan' = [chan EXCEPT ![c].inbox = Tail(@)]
    /\ UNCHANGED <<user_preferences_store, user_last_context, user_notifications,
                   active_connections, wsh, req, reply, clock, generated>>

\* receive_text returns the oldest message: for "ping" the handler calls
\* websocket.send_json with a pong on its own socket and suspends in it;
\* for any other text it goes round the loop
websocket_receive(c) ==
    /\ wsh[c].pc = "receive"
    /\ chan[c].inbox # <<>>
    /\ IF Head(chan[c].inbox) = "ping"
       THEN /\ chan' = [PushFrame(chan, c, [type |-> "pong", timestamp |-> clock])
                           EXCEPT ![c].inbox = Tail(@)]
            /\ wsh' = [wsh EXCEPT ![c].pc = "pong_send", ![c].ok = chan[c].open]
       ELSE /\ chan' = [chan EXCEPT ![c].inbox = Tail(@)]
            /\ wsh' = wsh
    /\ UNCHANGED <<user_preferences_store, user_last_context, user_notifications,
                   active_connections, req, reply, clock, generated>>

\* The pong's send_json returned, or it raised and `except Exception` calls
\* manager.disconnect(user_id) and the handler ends
websocket_pong_returns(c) ==
    /\ wsh[c].pc = "pong_send"
    /\ IF wsh[c].ok
       THEN /\ wsh' = [wsh EXCEPT ![c].pc = "receive", ![c].ok = FALSE]
            /\ active_connections' = active_connections
       ELSE /\ wsh' = [wsh EXCEPT ![c].pc = "closed", ![c].ok = FALSE]
            /\ active_connections' = disconnect(active_connections, wsh[c].user_id)
    /\ UNCHANGED <<user_preferences_store, user_last_context, user_notifications,
                   chan, req, reply, clock, generated>>

-----------------------------------------------------------------------------
(* ConnectionManager.broadcast, called by a coroutine in slot r *)

\* list(self.active_connections.keys()): a dict lists its keys in insertion
\* order.  Sockets are numbered in the order they are opened and a user's
\* key is inserted when the user's socket registers, so the keys are in the
\* order of their sockets.
RegisteredKeys(conns) ==
    CHOOSE s \in [1..Cardinality(DOMAIN conns) -> DOMAIN conns] :
        /\ \A i, j \in DOMAIN s : i < j => conns[s[i]] < conns[s[j]]
        /\ \A u \in DOMAIN conns : \E i \in DOMAIN s : s[i] = u

\* The position from i on of the first key that is not excluded and has an
\* entry in conns; Len + 1 when there is none.  For the keys before it the
\* loop body does not suspend.
NextTarget(q, i, conns) ==
    LET T == {j \in i..Len(q.keys) : /\ q.keys[j] # q.exclude_user
                                     /\ q.keys[j] \in DOMAIN conns}
    IN IF T = {} THEN Len(q.keys) + 1 ELSE CHOOSE j \in T : \A k \in T : j <= k

CountAfterAttempt(count, ok) == count + 1

\* count += 1 only if send_notification returned True
CountAfter(count, ok) == IF ok THEN count + 1 ELSE count

\* The for loop from position i on, with registry conns
BroadcastLoop(r, q, i, conns) ==
    LET j == NextTarget(q, i, conns)
        skipped == [k \in 1..(j - i) |-> [user_id |-> q.keys[i + k - 1],
                                          ws |-> 0, ok |-> FALSE]]
        q2 == [q EXCEPT !.results = q.results \o skipped]
    IN IF j <= Len(q.keys)
       THEN /\ chan' = PushFrame(chan, conns[q.keys[j]], q.notifications[1])
            /\ req' = [req EXCEPT ![r] =
                         [q2 EXCEPT !.pc = "bc_send", !.idx = j,
                                    !.ws = conns[q.keys[j]],
                                    !.ok = chan[conns[q.keys[j]]].open]]
            /\ reply' = reply
       ELSE /\ chan' = chan
            /\ req' = [req EXCEPT ![r] = IdleReq]
            /\ reply' = [q2 EXCEPT !.pc = "done", !.idx = 0, !.ws = 0, !.ok = FALSE,
                                   !.resp = [count |-> q.count]]

\* broadcast up to its first suspension, or to its return
broadcast(r, notification, exclude_user) ==
    /\ Free(r)
    /\ clock' = clock + 1
    /\ BroadcastLoop(r, [IdleReq EXCEPT !.op = "broadcast",
                                        !.notifications = <<notification>>,
                                        !.exclude_user = exclude_user,
                                        !.keys = RegisteredKeys(active_connections)],
                     1, active_connections)
    /\ UNCHANGED <<user_preferences_store, user_last_context, user_notifications,
                   active_connections, wsh, generated>>

\* send_notification resumes in broadcast
broadcast_send_returns(r) ==
    /\ req[r].pc = "bc_send"
    /\ active_connections' = AfterPush(active_connections, req[r].keys[req[r].idx], req[r].ok)
    /\ BroadcastLoop(r, [req[r] EXCEPT !.results = Append(@, [user_id |-> req[r].keys[req[r].idx],
                                                             ws |-> req[r].ws, ok |-> req[r].ok]),
                                       !.count = CountAfter(@, req[r].ok)],
                     req[r].idx + 1,
                     AfterPush(active_connections, req[r].keys[req[r].idx], req[r].ok))
    /\ UNCHANGED <<user_preferences_store, user_last_context, user_notifications,
                   wsh, clock, generated>>

-----------------------------------------------------------------------------
(* Initial state: the module has just been imported *)

Init ==
    /\ user_preferences_store = EmptyDict
    /\ user_last_context = EmptyDict
    /\ user_notifications = EmptyDict
    /\ active_connections = EmptyDict
    /\ chan = [c \in Chans |-> [open |-> TRUE, delivered |-> <<>>, inbox |-> <<>>]]
    /\ wsh = [c \in Chans |-> [pc |-> "new", user_id |-> None, ok |-> FALSE]]
    /\ req = [r \in Reqs |-> IdleReq]
    /\ reply = IdleReq
    /\ clock = 0
    /\ generated = [u \in Users |-> <<>>]

-----------------------------------------------------------------------------
(* Inputs *)

HHMM(h1, h2) == <<h1, h2, ":", "0", "0">>

PrefsLunch(user_id) ==
    [user_id |-> user_id, activity_type |-> "outdoor",
     meal_times |-> << <<"lunch", HHMM("1", "2")>> >>, preferred_cuisines |-> <<>>]

PrefsNoMeal(user_id) ==
    [user_id |-> user_id, activity_type |-> "indoor",
     meal_times |-> <<>>, preferred_cuisines |-> <<"Italian">>]

\* Montreal centre and a point about 0.26 km north of it (1e-4 degree)
LocCentre == [latitude |-> 455017, longitude |-> -735673]
LocNorth  == [latitude |-> 455040, longitude |-> -735673]
\* A point about 0.1 km north of the centre
LocNear   == [latitude |-> 455026, longitude |-> -735673]

-----------------------------------------------------------------------------
(* Sequential use by one client: one request at a time, no push channel *)

SeqHours == {10, 11, 12, 14}
SeqWeather == {"sunny"}

\* No handler is suspended: the client waits for each response
Quiet == \A r \in Reqs : req[r].pc = "idle"

NextSeq ==
    \/ Quiet /\ \E p \in {PrefsLunch("u1"), PrefsNoMeal("u1")} : save_preferences(p)
    \/ Quiet /\ delete_preferences("u1")
    \/ /\ clock < MaxClock
       /\ \E location \in {<<>>, <<LocCentre>>}, h \in SeqHours :
             update_user_context(1, "u1", location, h)
    \/ \E w \in SeqWeather : weather_returns(1, w, 20)
    \/ weather_fails(1)

Spec == Init /\ [][NextSeq]_vars

-----------------------------------------------------------------------------
(* Properties of detect_context_changes *)

\* The handler's locals after a step of handler r: suspended in a push, or returned
AfterStep(r) == IF req'[r].pc = "idle" THEN reply' ELSE req'[r]

\* A step in which handler r runs detect_context_changes for user_id
DetectStep(r, user_id) ==
    \/ /\ user_id \in DOMAIN user_preferences_store
       /\ "time_hour" \in DOMAIN AfterStep(r).new_context
       /\ update_user_context(r, user_id, <<>>, AfterStep(r).new_context.time_hour)
    \/ /\ req[r].pc = "cu_weather"
       /\ req[r].user_id = user_id
       /\ "weather" \in DOMAIN AfterStep(r).new_context
       /\ weather_returns(r, AfterStep(r).new_context.weather,
                          AfterStep(r).new_context.temperature)

\* The last request that returned was a context update diffed against a baseline
Diffed ==
    /\ reply.op = "update_user_context"
    /\ reply.resp.status = 200
    /\ ~reply.first

HasEvent(notifications, type) ==
    \E i \in 1..Len(notifications) : notifications[i].type = type

CountEvents(notifications, type) ==
    Cardinality({i \in 1..Len(notifications) : notifications[i].type = type})

LunchAtNoon == << <<"lunch", HHMM("1", "2")>> >>

HourStep(old_hour, new_hour) ==
    /\ Diffed
    /\ reply.preferences.meal_times = LunchAtNoon
    /\ reply.old_context.time_hour = old_hour
    /\ reply.new_context.time_hour = new_hour

\* C1: when the user has no stored context, detect_context_changes returns
\* no event, leaves every notification history as it was and stores the
\* incoming context as the user's baseline.
C1_FirstContextBaseline ==
    [][\A r \in Reqs, u \in Users :
         (DetectStep(r, u) /\ u \notin DOMAIN user_last_context)
         => /\ AfterStep(r).notifications = <<>>
            /\ reply'.resp.notifications = <<>>
            /\ user_notifications' = user_notifications
            /\ u \in DOMAIN user_last_context'
            /\ user_last_context'[u] = AfterStep(r).new_context]_vars

\* A first observation made after the user was deleted and saved again,
\* with a location, weather and temperature in the incoming context
C1_Witness ==
    /\ reply.op = "update_user_context"
    /\ reply.resp.status = 200 /\ reply.first
    /\ clock >= 1
    /\ "weather" \in DOMAIN reply.new_context
    /\ reply.resp.notifications = <<>>
    /\ user_last_context["u1"] = reply.new_context
    /\ "u1" \notin DOMAIN user_notifications

\* C2 as stated: with lunch at 12:00, 11 -> 12 emits meal_time and
\* 12 -> 14 emits none.
C2_Original ==
    /\ HourStep(11, 12) => HasEvent(reply.resp.notifications, "meal_time")
    /\ HourStep(12, 14) => ~HasEvent(reply.resp.notifications, "meal_time")

\* C2 amended: with lunch at 12:00, 10 -> 11 emits meal_time (hour 11 is
\* already within one hour of lunch, so 11 -> 12 emits none), and 12 -> 14
\* emits none.
C2_MealOnEntry ==
    /\ HourStep(10, 11) => HasEvent(reply.resp.notifications, "meal_time")
    /\ HourStep(11, 12) => ~HasEvent(reply.resp.notifications, "meal_time")
    /\ HourStep(12, 14) => ~HasEvent(reply.resp.notifications, "meal_time")

C2_Witness ==
    /\ HourStep(10, 11)
    /\ Len(reply.resp.notifications) = 1
    /\ reply.resp.notifications[1].type = "meal_time"
    /\ reply.resp.notifications[1].meal_type = "lunch"
    /\ user_notifications["u1"][Len(user_notifications["u1"])] = reply.resp.notifications[1]

\* C3: a diffed update (both contexts carry an hour) emits meal_time exactly
\* when the meal matching the new hour is not None and differs from the
\* meal matching the old hour, under the preferences the request loaded;
\* at most one is emitted, it names the new meal, and whether
\* time_period_change fired plays no part.
C3_MealTimeIff ==
    (Diffed /\ "time_hour" \in DOMAIN reply.old_context
            /\ "time_hour" \in DOMAIN reply.new_context)
    => LET new_meal == get_meal_type(reply.new_context.time_hour,
                                     reply.preferences.meal_times)
           old_meal == get_meal_type(reply.old_context.time_hour,
                                     reply.preferences.meal_times)
           events == reply.resp.notifications
       IN  /\ HasEvent(events, "meal_time") <=> (new_meal # None /\ new_meal # old_meal)
           /\ CountEvents(events, "meal_time") <= 1
           /\ \A i \in 1..Len(events) :
                 events[i].type = "meal_time" => events[i].meal_type = new_meal

\* Leaving the lunch window with a change of time period: time_period_change
\* alone is emitted
C3_Witness ==
    /\ Diffed
    /\ get_meal_type(reply.old_context.time_hour, reply.preferences.meal_times) = "lunch"
    /\ get_meal_type(reply.new_context.time_hour, reply.preferences.meal_times) = None
    /\ HasEvent(reply.resp.notifications, "time_period_change")
    /\ ~HasEvent(reply.resp.notifications, "meal_time")

-----------------------------------------------------------------------------
(* A long sequential run of one client: context updates that alternate    *)
(* between two time periods, each producing one event, clears of the      *)
(* history, and preference updates once the history is full.              *)

HistHours == {7, 8}

HistoryFull(user_id) ==
    /\ user_id \in DOMAIN user_notifications
    /\ Len(user_notifications[user_id]) = NOTIFICATION_HISTORY_LIMIT

NextHist ==
    \/ save_preferences(PrefsNoMeal("u1"))
    \/ /\ clock < MaxClockHist
       /\ \E h \in HistHours : update_user_context(1, "u1", <<>>, h)
    \/ /\ clock < MaxClockHist
       /\ HistoryFull("u1")
       /\ \E p \in {PrefsLunch("u1"), PrefsNoMeal("u1")} : update_preferences(1, "u1", p)
    \/ clear_notification_history("u1")

SpecHist == Init /\ [][NextHist]_vars

\* s is the most recent (up to n) elements of g, in order
IsRecentTail(s, g, n) ==
    /\ Len(s) <= n
    /\ Len(s) <= Len(g)
    /\ \A i \in 1..Len(s) : s[i] = g[Len(g) - Len(s) + i]
    /\ Len(s) = Len(g) \/ Len(s) = n

\* C4: every stored history has at most NOTIFICATION_HISTORY_LIMIT (50)
\* events and is the most recent part, in generation order, of the events
\* generated for the user since the history was last cleared.
C4_HistoryBound ==
    \A u \in Users :
        IF u \in DOMAIN user_notifications
        THEN IsRecentTail(user_notifications[u], generated[u], 50)
        ELSE generated[u] = <<>>

\* Sixty events generated, the last fifty kept
C4_Witness ==
    /\ Len(generated["u1"]) = 60
    /\ Len(user_notifications["u1"]) = 50
    /\ user_notifications["u1"][1] = generated["u1"][11]
    /\ user_notifications["u1"][50] = generated["u1"][60]
    /\ generated["u1"][11] # generated["u1"][1]

-----------------------------------------------------------------------------
(* Concurrent use with push channels: two request handlers in flight for  *)
(* one user, who opens up to two WebSocket connections                    *)

PushHours == {10, 12}

NextPush(max_clock) ==
    \/ save_preferences(PrefsLunch("u1"))
    \/ /\ clock < max_clock
       /\ \E r \in Reqs, p \in {PrefsLunch("u1"), PrefsNoMeal("u1")} :
             update_preferences(r, "u1", p)
    \/ \E r \in Reqs : preferences_send_returns(r)
    \/ /\ clock < max_clock
       /\ \E r \in Reqs, h \in PushHours : update_user_context(r, "u1", <<>>, h)
    \/ \E r \in Reqs : context_send_returns(r)
    \/ \E c \in Chans : \* sockets are numbered in the order they are opened
          /\ \A c2 \in Chans : c2 < c => wsh[c2].pc # "new"
          /\ websocket_connect(c, "u1")
    \/ \E c \in Chans : websocket_welcome_returns(c)
    \/ \E c \in Chans : client_close(c)
    \/ \E c \in Chans : websocket_disconnected(c)

SpecPush == Init /\ [][NextPush(MaxClockPush)]_vars

NextOrder ==
    \/ NextPush(MaxClockOrder)
    \/ delete_preferences("u1")

SpecOrder == Init /\ [][NextOrder]_vars

\* A step in which update_preferences returns for user_id after a change
PreferencesReturn(r, user_id) ==
    \/ /\ req[r].user_id = user_id
       /\ preferences_send_returns(r)
    \/ /\ user_id \in DOMAIN user_preferences_store
       /\ user_id \notin DOMAIN active_connections
       /\ \E p \in {PrefsLunch(user_id), PrefsNoMeal(user_id)} :
             /\ PreferenceChanges(user_preferences_store[user_id], p) # <<>>
             /\ update_preferences(r, user_id, p)

\* s ends with t
EndsWith(s, t) ==
    /\ Len(t) <= Len(s)
    /\ \A i \in 1..Len(t) : s[Len(s) - Len(t) + i] = t[i]

\* C5: the events a context update emits are at the end of the user's
\* history from the step that emits them, before any push; the event of a
\* preference update is at the end of the history when the request
\* returns, whether the push succeeded, failed or found no channel; and the
\* return of a push, failed or not, leaves every history as it was.
C5_EventsReachHistory ==
    [][\A r \in Reqs, u \in Users :
         /\ DetectStep(r, u)
               => /\ u \in DOMAIN user_notifications' \/ AfterStep(r).notifications = <<>>
                  /\ AfterStep(r).notifications # <<>>
                        => EndsWith(user_notifications'[u], AfterStep(r).notifications)
         /\ PreferencesReturn(r, u)
               => /\ u \in DOMAIN user_notifications'
                  /\ EndsWith(user_notifications'[u], reply'.notifications)
                  /\ Len(reply'.notifications) = 1
         /\ context_send_returns(r) => user_notifications' = user_notifications]_vars

\* A preference update whose push failed: the event is the last of the history
C5_Witness ==
    /\ reply.op = "update_preferences"
    /\ reply.resp.status = 200
    /\ Len(reply.results) = 1
    /\ reply.results[1].ws \in Chans
    /\ ~reply.results[1].ok
    /\ "u1" \notin DOMAIN active_connections
    /\ user_notifications["u1"] = reply.notifications

\* Handler r is suspended in a push after this step, begun in this step
PushBegins(r) ==
    /\ req'[r].pc \in {"cu_send", "pu_send"}
    /\ req'[r] # req[r]

\* Handler r's push returns in this step
PushReturns(r) == context_send_returns(r) \/ preferences_send_returns(r)

Frames(c) == {chan[c].delivered[i] : i \in 1..Len(chan[c].delivered)}

\* C6: a push is attempted on the socket registered for the user when
\* send_notification is called and hands the frame to it exactly when the
\* socket is open; send_notification returns True only after such a
\* successful push and then leaves the registry alone; when the push fails
\* it returns False and the user has no entry afterwards; when the user has
\* no entry it returns False at once and leaves the registry alone; and
\* registering makes the new socket the user's entry, the target of later
\* sends.
C6_SendContract ==
    [][/\ \A r \in Reqs :
            /\ PushBegins(r)
                  => /\ req'[r].user_id \in DOMAIN active_connections'
                     /\ req'[r].ws = active_connections'[req'[r].user_id]
                     /\ req'[r].ok = chan[req'[r].ws].open
                     /\ chan'[req'[r].ws].delivered =
                           IF req'[r].ok
                           THEN Append(chan[req'[r].ws].delivered,
                                       req'[r].notifications[IF req'[r].pc = "cu_send"
                                                             THEN req'[r].idx ELSE 1])
                           ELSE chan[req'[r].ws].delivered
            /\ PushReturns(r)
                  => /\ AfterStep(r).results[Len(req[r].results) + 1] =
                           [ws |-> req[r].ws, ok |-> req[r].ok]
                     /\ req[r].ok => \/ active_connections' = active_connections
                                     \/ PushBegins(r)
                     /\ req[r].ok => req[r].notifications[IF req[r].pc = "cu_send"
                                                          THEN req[r].idx ELSE 1]
                                        \in Frames(req[r].ws)
                     /\ ~req[r].ok => \/ req[r].user_id \notin DOMAIN active_connections'
                                      \/ PushBegins(r)
                     /\ ~req[r].ok /\ req'[r].pc = "idle"
                           => \A i \in (Len(req[r].results) + 2)..Len(reply'.results) :
                                 reply'.results[i] = [ws |-> 0, ok |-> FALSE]
            /\ \A u \in Users :
                  (DetectStep(r, u) \/ PreferencesReturn(r, u)) /\ ~PushReturns(r)
                     => /\ active_connections' = active_connections
                        /\ u \in DOMAIN active_connections
                              => PushBegins(r) \/ AfterStep(r).notifications = <<>>
                        /\ u \notin DOMAIN active_connections
                              => /\ req'[r].pc = "idle"
                                 /\ chan' = chan
                                 /\ \A i \in 1..Len(reply'.results) :
                                       reply'.results[i] = [ws |-> 0, ok |-> FALSE]
       /\ \A c \in Chans, u \in Users :
            websocket_connect(c, u)
               => /\ active_connections' = DictSet(active_connections, u, c)
                  /\ chan'[c].delivered = Append(chan[c].delivered,
                        [type |-> "connection_established", timestamp |-> clock])]_vars

\* Self-healing: the push on socket 1 failed and removed the entry, the
\* next send of the same request found no entry, then socket 2 was
\* registered and its welcome was pushed on it
C6_Witness ==
    /\ reply.op = "update_user_context"
    /\ reply.results = << [ws |-> 1, ok |-> FALSE], [ws |-> 0, ok |-> FALSE] >>
    /\ ~chan[1].open
    /\ wsh[1].pc = "receive"
    /\ "u1" \in DOMAIN active_connections
    /\ active_connections["u1"] = 2
    /\ wsh[2].pc = "receive"
    /\ Len(chan[2].delivered) = 1
    /\ user_notifications["u1"] = reply.notifications

Positions(s, e) == {i \in 1..Len(s) : s[i] = e}

\* C7: on every socket, the user's events appear in the order in which they
\* were appended to the user's history.
C7_DeliveryOrder ==
    \A c \in Chans :
        \A i, j \in 1..Len(chan[c].delivered) :
            i < j => \A a \in Positions(generated[wsh[c].user_id], chan[c].delivered[i]),
                        b \in Positions(generated[wsh[c].user_id], chan[c].delivered[j]) :
                        a < b

\* C9: a delete-user request that succeeds leaves the user without a stored
\* context, without a notification history and without a registered
\* connection.
C9_DeleteClearsAll ==
    [][\A u \in Users :
         (u \in DOMAIN user_preferences_store /\ delete_preferences(u))
         => /\ u \notin DOMAIN user_last_context'
            /\ u \notin DOMAIN user_notifications'
            /\ u \notin DOMAIN active_connections']_vars

-----------------------------------------------------------------------------
(* Racing context updates: two handlers for one user, each of which may   *)
(* be suspended in get_weather while the other runs                       *)

RaceHours == {10, 12}

NextRace ==
    \/ save_preferences(PrefsLunch("u1"))
    \/ delete_preferences("u1")
    \/ /\ clock < MaxClockRace
       /\ \E r \in Reqs :
             \/ \E h \in RaceHours : update_user_context(r, "u1", <<>>, h)
             \/ \E loc \in {LocCentre, LocNorth} :
                   update_user_context(r, "u1", <<loc>>, 12)
    \/ \E r \in Reqs : weather_returns(r, "sunny", 20)
    \/ \E r \in Reqs : weather_fails(r)

SpecRace == Init /\ [][NextRace]_vars

\* C8: the step in which a context update reads the baseline is the step
\* in which it diffs, replaces the baseline and appends to the history: the
\* diff is against the snapshot stored at that moment (the one the call
\* applied immediately before it stored), the new snapshot becomes the
\* baseline, the events go to the end of the history, and nothing but such
\* a step or a delete changes a baseline.
C8_NoLostUpdate ==
    [][/\ \A r \in Reqs, u \in Users :
            DetectStep(r, u)
               => /\ AfterStep(r).first = (u \notin DOMAIN user_last_context)
                  /\ u \in DOMAIN user_last_context
                        => AfterStep(r).old_context = user_last_context[u]
                  /\ AfterStep(r).notifications =
                        IF u \in DOMAIN user_last_context
                        THEN DiffNotifications(user_last_context[u], AfterStep(r).new_context,
                                               AfterStep(r).preferences, clock)
                        ELSE <<>>
                  /\ user_last_context' =
                        DictSet(user_last_context, u, AfterStep(r).new_context)
                  /\ user_notifications' =
                        HistoryExtend(user_notifications, u, AfterStep(r).notifications)
       /\ user_last_context' # user_last_context
             => \E r \in Reqs, u \in Users :
                   DetectStep(r, u) \/ delete_preferences(u)]_vars

\* A call that waited for the weather while another call replaced the
\* baseline, and was then diffed against that newer baseline
C8_Witness ==
    /\ reply.op = "update_user_context"
    /\ reply.resp.status = 200
    /\ "weather" \in DOMAIN reply.new_context
    /\ ~reply.first
    /\ "u1" \in DOMAIN reply.start_context
    /\ reply.start_context["u1"] # reply.old_context
    /\ reply.notifications # <<>>
    /\ user_last_context["u1"] = reply.new_context

-----------------------------------------------------------------------------
(* Reading and clearing the history, one request at a time *)

ReadHours == {10, 12, 14}
ReadLimits == {1, 20}

NextRead ==
    \/ save_preferences(PrefsLunch("u1"))
    \/ delete_preferences("u1")
    \/ /\ clock < MaxClockRead
       /\ \E h \in ReadHours : update_user_context(1, "u1", <<>>, h)
    \/ \E limit \in ReadLimits : get_notification_history("u1", limit)
    \/ clear_notification_history("u1")

SpecRead == Init /\ [][NextRead]_vars

\* What GET /api/notifications/{user_id} answers a known user whose history
\* is empty (the user_id both answers echo is reply.user_id)
KnownEmptyHistoryResponse ==
    [status |-> 200, notifications |-> <<>>, total |-> 0, showing |-> 0]

\* The user is in none of the engine's tables
Unknown(user_id) ==
    /\ user_id \notin DOMAIN user_preferences_store
    /\ user_id \notin DOMAIN user_last_context
    /\ user_id \notin DOMAIN user_notifications
    /\ user_id \notin DOMAIN active_connections

\* C10: the answer to a history request for a user unknown to the engine
\* differs from the answer a known user with an empty history gets.
C10_UnknownUserNotFound ==
    (reply.op = "get_notification_history" /\ Unknown(reply.user_id))
        => reply.resp # KnownEmptyHistoryResponse

-----------------------------------------------------------------------------
(* Context updates for a user whose profile was deleted while requests of *)
(* that user were waiting for the weather, and who holds a socket         *)

NoProfileHours == {10, 12}

NextNoProfile ==
    \/ save_preferences(PrefsLunch("u1"))
    \/ delete_preferences("u1")
    \/ /\ clock < MaxClockNoProfile \/ "u1" \notin DOMAIN user_preferences_store
       /\ \E r \in Reqs, h \in NoProfileHours, location \in {<<>>, <<LocCentre>>} :
             update_user_context(r, "u1", location, h)
    \/ \E r \in Reqs : weather_returns(r, "sunny", 20)
    \/ \E r \in Reqs : context_send_returns(r)
    \/ websocket_connect(1, "u1")
    \/ websocket_welcome_returns(1)

SpecNoProfile == Init /\ [][NextNoProfile]_vars

\* C11: a context update for a user without a stored profile answers 404,
\* and the step leaves the preference store, the context store, every
\* history, the registry, every socket and every suspended handler as they
\* were.
C11_NoProfileNotFound ==
    [][\A r \in Reqs, u \in Users :
         (/\ u \notin DOMAIN user_preferences_store
          /\ \E h \in NoProfileHours, location \in {<<>>, <<LocCentre>>} :
                update_user_context(r, u, location, h))
         => /\ reply'.op = "update_user_context"
            /\ reply'.user_id = u
            /\ reply'.resp = [status |-> 404]
            /\ UNCHANGED <<user_preferences_store, user_last_context,
                           user_notifications, active_connections, chan, req>>]_vars

\* Not found for a user who still has a stored context, a history with an
\* event in it and a registered, open socket
C11_Witness ==
    /\ reply.op = "update_user_context"
    /\ reply.resp.status = 404
    /\ "u1" \notin DOMAIN user_preferences_store
    /\ "u1" \in DOMAIN user_last_context
    /\ "u1" \in DOMAIN user_notifications
    /\ user_notifications["u1"] # <<>>
    /\ "u1" \in DOMAIN active_connections
    /\ chan[active_connections["u1"]].open

-----------------------------------------------------------------------------
(* The response of a context update whose pushes fail *)

\* Handler r's context update returns in this step, its diff done
ContextReturns(r) ==
    /\ req'[r].pc = "idle"
    /\ \/ context_send_returns(r)
       \/ \E u \in Users : DetectStep(r, u)

\* Event e is on no socket after this step
NowhereDelivered(e) ==
    \A c \in Chans : \A k \in 1..Len(chan'[c].delivered) : chan'[c].delivered[k] # e

\* C12: once the diff is done the context update answers 200 with the whole
\* list the diff generated, whatever the pushes did; every event is pushed
\* at most once, so an event whose push failed or found no channel is on no
\* socket when the request returns; and when a push fails the socket it
\* was attempted on is no longer the user's entry.
C12_PushFailureNotRaised ==
    [][\A r \in Reqs :
         /\ \A u \in Users :
               DetectStep(r, u)
                  => generated'[u] = generated[u] \o AfterStep(r).notifications
         /\ context_send_returns(r)
               => /\ AfterStep(r).notifications = req[r].notifications
                  /\ ~req[r].ok
                        => \/ req[r].user_id \notin DOMAIN active_connections'
                           \/ active_connections'[req[r].user_id] # req[r].ws
         /\ ContextReturns(r)
               => /\ reply'.resp.status = 200
                  /\ reply'.resp.notifications = reply'.notifications
                  /\ reply'.resp.notifications_generated = Len(reply'.notifications)
                  /\ Len(reply'.results) = Len(reply'.notifications)
                  /\ \A i \in 1..Len(reply'.results) :
                        ~reply'.results[i].ok
                           => NowhereDelivered(reply'.notifications[i])]_vars

\* Two events generated: the push of the first failed on a closed socket,
\* the second found no entry; both are in the 200 response and on no socket
C12_Witness ==
    /\ reply.op = "update_user_context"
    /\ reply.resp.status = 200
    /\ Len(reply.resp.notifications) = 2
    /\ reply.results = << [ws |-> 1, ok |-> FALSE], [ws |-> 0, ok |-> FALSE] >>
    /\ "u1" \notin DOMAIN active_connections
    /\ \A c \in Chans : \A i \in 1..2 : reply.resp.notifications[i] \notin Frames(c)
    /\ EndsWith(user_notifications["u1"], reply.resp.notifications)

-----------------------------------------------------------------------------
(* Request bodies that must not pass validation *)

PrefsMeal(user_id, meal, time) ==
    [user_id |-> user_id, activity_type |-> "outdoor",
     meal_times |-> << <<meal, time>> >>, preferred_cuisines |-> <<>>]

\* Bodies with lunch at "12:00", a meal "brunch", and lunch at "25:00",
\* "12:60", "12", "7:5" and "-0:30"
ValidateProfiles ==
    { PrefsLunch("u1"),
      PrefsMeal("u1", "brunch", HHMM("1", "2")),
      PrefsMeal("u1", "lunch", HHMM("2", "5")),
      PrefsMeal("u1", "lunch", <<"1", "2", ":", "6", "0">>),
      PrefsMeal("u1", "lunch", <<"1", "2">>),
      PrefsMeal("u1", "lunch", <<"7", ":", "5">>),
      PrefsMeal("u1", "lunch", <<"-", "0", ":", "3", "0">>) }

\* Latitude 90.0001 and longitude 180.0001
LocBadLatitude  == [latitude |-> 900001, longitude |-> -735673]
LocBadLongitude == [latitude |-> 455017, longitude |-> 1800001]

ValidateLocations == {LocCentre, LocBadLatitude, LocBadLongitude}
ValidateHours == {10, 12}

NextValidate ==
    \/ Quiet /\ \E p \in ValidateProfiles : save_preferences(p)
    \/ /\ clock < MaxClockValidate
       /\ \E h \in ValidateHours :
             \/ update_user_context(1, "u1", <<>>, h)
             \/ \E loc \in ValidateLocations : update_user_context(1, "u1", <<loc>>, h)
    \/ weather_returns(1, "sunny", 20)

SpecValidate == Init /\ [][NextValidate]_vars

\* A valid 24-hour "HH:MM": two digits, a colon, two digits, 00:00 to 23:59
IsHHMM(time) ==
    /\ Len(time) = 5
    /\ time[3] = ":"
    /\ \A i \in {1, 2, 4, 5} : IsDigit(time[i])
    /\ DigitsOf(<<time[1], time[2]>>) <= 23
    /\ DigitsOf(<<time[4], time[5]>>) <= 59

\* A body with a meal key other than breakfast, lunch, dinner or a meal
\* time that is not a valid HH:MM
MalformedProfile(p) ==
    \E i \in 1..Len(p.meal_times) :
        \/ p.meal_times[i][1] \notin {"breakfast", "lunch", "dinner"}
        \/ ~IsHHMM(p.meal_times[i][2])

\* A latitude outside [-90, 90] or a longitude outside [-180, 180]
OutOfRange(loc) ==
    \/ loc.latitude < -900000 \/ loc.latitude > 900000
    \/ loc.longitude < -1800000 \/ loc.longitude > 1800000

\* C13: a save-preferences body with an unknown meal key or a meal time
\* that is not a valid 24-hour HH:MM, and a context update with a latitude
\* or longitude out of range, are rejected, and the stores, the registry
\* and the sockets are as before.
C13_MalformedRejected ==
    [][/\ \A p \in ValidateProfiles :
            (MalformedProfile(p) /\ save_preferences(p))
               => /\ reply'.resp.status = 422
                  /\ UNCHANGED <<user_preferences_store, user_last_context,
                                 user_notifications, active_connections, chan>>
       /\ \A loc \in ValidateLocations, h \in ValidateHours :
            (OutOfRange(loc) /\ update_user_context(1, "u1", <<loc>>, h))
               => /\ reply'.resp.status = 422
                  /\ UNCHANGED <<user_preferences_store, user_last_context,
                                 user_notifications, active_connections, chan>>]_vars

-----------------------------------------------------------------------------
(* The checks of detect_context_changes over pairs of snapshots: one      *)
(* client, one request at a time, snapshots with and without a location.  *)
(* The client goes on until an update has put events in its history, so   *)
(* every pair of snapshots is diffed, after every run of silent updates.  *)

DiffHours == {1, 3, 10, 11}
DiffLocations == {LocCentre, LocNear, LocNorth}
\* What get_weather returns: <<weather, temperature>>
DiffWeather == { <<"sunny", 20>>, <<"sunny", 21>>, <<"rainy", 20>>,
                 <<"rainy", 26>>, <<"cloudy", 20>> }

NextDiff ==
    \/ Quiet /\ save_preferences(PrefsLunch("u1"))
    \/ /\ "u1" \notin DOMAIN user_notifications
       /\ \E h \in DiffHours :
             \/ update_user_context(1, "u1", <<>>, h)
             \/ \E loc \in DiffLocations : update_user_context(1, "u1", <<loc>>, h)
    \/ \E wt \in DiffWeather : weather_returns(1, wt[1], wt[2])

SpecDiff == Init /\ [][NextDiff]_vars

\* C14: after a context update that was diffed against a baseline, the
\* stored snapshot is the incoming snapshot, field for field: whether or
\* not an event fired, and with no field of the previous snapshot carried
\* over.
C14_SnapshotReplaced ==
    Diffed => /\ reply.user_id \in DOMAIN user_last_context
              /\ user_last_context[reply.user_id] = reply.new_context
              /\ DOMAIN user_last_context[reply.user_id] = DOMAIN reply.new_context
              /\ reply.resp.context_updated = reply.new_context

\* An hour-only snapshot replaced one with location, weather and
\* temperature, and no event fired: only the hour is stored
C14_Witness ==
    /\ Diffed
    /\ DOMAIN reply.old_context = {"location", "weather", "temperature", "time_hour"}
    /\ DOMAIN reply.new_context = {"time_hour"}
    /\ reply.resp.notifications = <<>>
    /\ user_last_context["u1"] = [time_hour |-> reply.new_context.time_hour]

\* Both snapshots of the last diffed update carry the field
InBoth(field) ==
    /\ Diffed
    /\ field \in DOMAIN reply.old_context
    /\ field \in DOMAIN reply.new_context

\* The distance between the locations of the two snapshots
DistanceMoved ==
    calculate_distance(reply.old_context.location.latitude,
                       reply.old_context.location.longitude,
                       reply.new_context.location.latitude,
                       reply.new_context.location.longitude)

FiveBuckets(hour) ==
    IF 5 <= hour /\ hour <= 7 THEN "EarlyMorning"
    ELSE IF 8 <= hour /\ hour <= 11 THEN "Morning"
    ELSE IF 12 <= hour /\ hour <= 16 THEN "Afternoon"
    ELSE IF 17 <= hour /\ hour <= 20 THEN "Evening"
    ELSE "Night"

\* C16: when both snapshots carry an hour, time_period_change is emitted
\* exactly when the two hours are in different buckets of the five; a
\* change from 1 to 3, inside 21-4, emits none.
C16_FiveTimePeriods ==
    InBoth("time_hour") =>
       (HasEvent(reply.resp.notifications, "time_period_change")
          <=> FiveBuckets(reply.old_context.time_hour)
                 # FiveBuckets(reply.new_context.time_hour))

\* The weather_change events of the last response
WeatherEvents ==
    SelectSeq(reply.resp.notifications, LAMBDA e : e.type = "weather_change")

\* C17: a diffed update emits weather_change exactly when both snapshots
\* carry a weather value and the values differ, and then exactly one, with
\* the old and the new weather and the message of the (old, new) table or,
\* for a pair the table lacks, the generic text; none when a snapshot has
\* no weather.
C17_WeatherChange ==
    Diffed =>
       /\ HasEvent(reply.resp.notifications, "weather_change")
             <=> (InBoth("weather") /\ reply.old_context.weather # reply.new_context.weather)
       /\ Len(WeatherEvents) <= 1
       /\ \A i \in 1..Len(WeatherEvents) :
             /\ WeatherEvents[i].old_weather = reply.old_context.weather
             /\ WeatherEvents[i].new_weather = reply.new_context.weather
             /\ WeatherEvents[i].message =
                   get_weather_activity_impact(reply.old_context.weather,
                                               reply.new_context.weather).message
             /\ (reply.old_context.weather = "sunny" /\ reply.new_context.weather = "rainy")
                   => WeatherEvents[i].message =
                         <<"Weather changed to rainy. Consider indoor activities.">>
             /\ (reply.old_context.weather = "rainy" /\ reply.new_context.weather = "cloudy")
                   => WeatherEvents[i].message =
                         <<"Weather changed from ", "rainy", " to ", "cloudy", ".">>

\* rainy to cloudy, a pair the table lacks: one weather_change with the
\* generic text
C17_Witness ==
    /\ InBoth("weather")
    /\ reply.old_context.weather = "rainy"
    /\ reply.new_context.weather = "cloudy"
    /\ Len(WeatherEvents) = 1
    /\ WeatherEvents[1].message = <<"Weather changed from ", "rainy", " to ", "cloudy", ".">>
    /\ WeatherEvents[1].activity_suggestion = "check_recommendations"

CheckRank(type) ==
    CASE type = "location_change" -> 1
      [] type = "time_period_change" -> 2
      [] type = "meal_time" -> 3
      [] type = "weather_change" -> 4
      [] type = "temperature_change" -> 5

\* The types of a list of events, in order
EventTypes(events) == [i \in 1..Len(events) |-> events[i].type]

\* C19: the events of one update are of the five types, each at most once,
\* in the order location, time period, meal, weather, temperature, both in
\* the returned list and at the end of the user's history.
C19_ChecksInOrder ==
    Diffed =>
       /\ \A i \in 1..Len(reply.resp.notifications) :
             reply.resp.notifications[i].type \in
                {"location_change", "time_period_change", "meal_time",
                 "weather_change", "temperature_change"}
       /\ \A i, j \in 1..Len(reply.resp.notifications) :
             i < j => CheckRank(reply.resp.notifications[i].type)
                         < CheckRank(reply.resp.notifications[j].type)
       /\ reply.resp.notifications # <<>>
             => /\ reply.user_id \in DOMAIN user_notifications
                /\ EndsWith(user_notifications[reply.user_id], reply.resp.notifications)

\* All five checks fire from one update, the weather going from sunny to
\* rainy and the temperature up by 6 degrees
C19_Witness ==
    /\ Diffed
    /\ EventTypes(reply.resp.notifications) =
          <<"location_change", "time_period_change", "meal_time",
            "weather_change", "temperature_change">>
    /\ reply.old_context.weather = "sunny" /\ reply.new_context.weather = "rainy"
    /\ reply.new_context.temperature - reply.old_context.temperature = 6
    /\ user_notifications["u1"] = reply.resp.notifications

-----------------------------------------------------------------------------
(* The welcome on a newly registered socket *)

\* Whatever a socket has delivered starts with connection_established,
\* and that is its only connection_established
WelcomeFirst ==
    \A c \in Chans :
        \A k \in 1..Len(chan[c].delivered) :
            (chan[c].delivered[k].type = "connection_established") <=> (k = 1)

\* C20: registering a socket makes it the user's entry and, in the same
\* step, pushes connection_established on it while nothing else has been
\* delivered on it; so on every socket the first frame delivered is
\* connection_established, ahead of every context or preference event.
C20_WelcomeFirst ==
    /\ []WelcomeFirst
    /\ [][\A c \in Chans, u \in Users :
            websocket_connect(c, u)
               => /\ u \in DOMAIN active_connections'
                  /\ active_connections'[u] = c
                  /\ chan[c].delivered = <<>>
                  /\ Len(chan'[c].delivered) = 1
                  /\ chan'[c].delivered[1].type = "connection_established"
                  /\ wsh'[c].pc = "welcome" /\ wsh'[c].ok]_vars

\* The second socket of the user delivered the welcome and then a
\* preference event, after the first had delivered the welcome only
C20_Witness ==
    /\ chan[1].delivered = <<[type |-> "connection_established", timestamp |-> 0]>>
    /\ Len(chan[2].delivered) = 2
    /\ chan[2].delivered[1].type = "connection_established"
    /\ chan[2].delivered[2].type = "preferences_updated"
    /\ wsh[2].user_id = "u1"

-----------------------------------------------------------------------------
(* One entry per user in the registry *)

\* Socket c is the entry of user_id in registry conns
IsEntry(conns, user_id, c) == user_id \in DOMAIN conns /\ conns[user_id] = c

\* C21: the registry maps each user to at most one socket; registering a
\* socket for a user who has an entry succeeds and replaces the entry; a
\* frame is only ever handed to the socket that is the user's entry, so
\* none goes to a replaced socket; and a socket that was registered and is
\* no longer the entry never becomes the entry again.
C21_OneChannelPerUser ==
    /\ [](/\ DOMAIN active_connections \subseteq Users
          /\ \A u \in DOMAIN active_connections : active_connections[u] \in Chans)
    /\ [][/\ \A c \in Chans, u \in Users :
               /\ (u \in DOMAIN active_connections /\ websocket_connect(c, u))
                     => /\ IsEntry(active_connections', u, c)
                        /\ active_connections[u] # c
                        /\ DOMAIN active_connections' = DOMAIN active_connections
                        /\ wsh'[c].pc = "welcome"
               /\ (wsh[c].pc # "new" /\ wsh[c].user_id = u
                                    /\ ~IsEntry(active_connections, u, c))
                     => /\ ~IsEntry(active_connections', u, c)
                        /\ chan'[c].delivered = chan[c].delivered
          /\ \A c \in Chans :
               chan'[c].delivered # chan[c].delivered
                  => IsEntry(active_connections', wsh'[c].user_id, c)
          /\ \A r \in Reqs :
               PushBegins(r)
                  => IsEntry(active_connections', req'[r].user_id, req'[r].ws)]_vars

\* Socket 2 was registered over socket 1, which is still open, and the
\* context event generated afterwards went to socket 2 only
C21_Witness ==
    /\ chan[1].open /\ chan[2].open
    /\ wsh[1].pc = "receive" /\ wsh[2].pc = "receive"
    /\ IsEntry(active_connections, "u1", 2)
    /\ Len(chan[1].delivered) = 1
    /\ Len(chan[2].delivered) = 2
    /\ chan[2].delivered[2].type = "time_period_change"
    /\ reply.op = "update_user_context"
    /\ reply.results = << [ws |-> 2, ok |-> TRUE] >>

-----------------------------------------------------------------------------
(* broadcast: two users with one socket each, broadcasts in flight while  *)
(* sockets register, close and unregister                                 *)

BroadcastUsers == {"u1", "u2"}
BroadcastExclude == {None, "u1"}

NextBroadcast ==
    \/ \E c \in Chans, u \in BroadcastUsers :
          /\ \A c2 \in Chans : c2 < c => wsh[c2].pc # "new"
          /\ \A c2 \in Chans : wsh[c2].user_id # u
          /\ websocket_connect(c, u)
    \/ \E c \in Chans : websocket_welcome_returns(c)
    \/ \E c \in Chans : client_close(c)
    \/ \E c \in Chans : websocket_disconnected(c)
    \/ /\ clock < MaxClockBroadcast
       /\ \E r \in Reqs, x \in BroadcastExclude :
             broadcast(r, [type |-> "broadcast", timestamp |-> clock], x)
    \/ \E r \in Reqs : broadcast_send_returns(r)

SpecBroadcast == Init /\ [][NextBroadcast]_vars


\* A broadcast returns in this step
BroadcastReturns == reply' # reply /\ reply'.op = "broadcast"

\* The keys of broadcast q that are not the excluded user
Addressed(q) == {i \in 1..Len(q.keys) : q.keys[i] # q.exclude_user}

\* C22 as stated: when broadcast returns, a push was attempted for every
\* user registered at the time of the call except the excluded one.
C22_Original ==
    [][BroadcastReturns
          => \A i \in Addressed(reply') : reply'.results[i].ws # 0]_vars

\* C22: broadcast goes through the users registered at the time of the call
\* in order; it attempts a push for each of them, except the excluded one,
\* who still has an entry when the loop reaches them, on the socket that is
\* their entry at that moment, and for no one else; a failed push removes
\* that user's entry, leaves every other entry alone and the loop goes on
\* with the next user; the value returned is the number of pushes that
\* succeeded.
C22_Broadcast ==
    [][/\ \A r \in Reqs :
            /\ (req'[r].pc = "bc_send" /\ req'[r] # req[r])
                  => LET q == req'[r]
                         before == IF req[r].pc = "bc_send" THEN req[r].idx ELSE 0
                     IN /\ q.keys[q.idx] # q.exclude_user
                        /\ IsEntry(active_connections', q.keys[q.idx], q.ws)
                        /\ q.ok = chan[q.ws].open
                        /\ chan'[q.ws].delivered =
                              IF q.ok THEN Append(chan[q.ws].delivered, q.notifications[1])
                                      ELSE chan[q.ws].delivered
                        /\ \A c \in Chans \ {q.ws} : chan'[c] = chan[c]
                        /\ \A j \in (before + 1)..(q.idx - 1) :
                              \/ q.keys[j] = q.exclude_user
                              \/ q.keys[j] \notin DOMAIN active_connections'
            /\ broadcast_send_returns(r)
                  => LET q == req[r]
                         u == q.keys[q.idx]
                     IN /\ \A u2 \in BroadcastUsers \ {u} :
                              /\ u2 \in DOMAIN active_connections'
                                    <=> u2 \in DOMAIN active_connections
                              /\ u2 \in DOMAIN active_connections
                                    => active_connections'[u2] = active_connections[u2]
                        /\ q.ok => active_connections' = active_connections
                        /\ ~q.ok => u \notin DOMAIN active_connections'
                        /\ (\E j \in (q.idx + 1)..Len(q.keys) :
                               /\ q.keys[j] # q.exclude_user
                               /\ q.keys[j] \in DOMAIN active_connections')
                              => req'[r].pc = "bc_send" /\ req'[r].idx > q.idx
       /\ BroadcastReturns
             => LET q == reply'
                IN /\ Len(q.results) = Len(q.keys)
                   /\ \A i \in 1..Len(q.keys) :
                         /\ q.results[i].user_id = q.keys[i]
                         /\ q.keys[i] = q.exclude_user => q.results[i].ws = 0
                         /\ q.results[i].ok => q.results[i].ws # 0
                   /\ q.resp.count = Cardinality({i \in 1..Len(q.keys) : q.results[i].ok})
                   /\ chan' = chan]_vars

\* A broadcast to u1 and u2 returned 1: the push to u1 failed on its closed
\* socket and removed u1's entry, the push to u2 was still made and succeeded
C22_Witness ==
    /\ reply.op = "broadcast"
    /\ reply.keys = <<"u1", "u2">>
    /\ reply.exclude_user = None
    /\ reply.results = << [user_id |-> "u1", ws |-> 1, ok |-> FALSE],
                          [user_id |-> "u2", ws |-> 2, ok |-> TRUE] >>
    /\ reply.resp.count = 1
    /\ "u1" \notin DOMAIN active_connections
    /\ IsEntry(active_connections, "u2", 2)
    /\ reply.notifications[1] \in Frames(2)

-----------------------------------------------------------------------------
(* disconnect *)

\* A user for whom no socket is ever opened
NeverRegistered == "u3"

\* Registry d is registry conns without user_id's entry, all else equal
Without(conns, user_id, d) ==
    /\ DOMAIN d = DOMAIN conns \ {user_id}
    /\ \A u2 \in DOMAIN d : d[u2] = conns[u2]

\* C23: in every reachable registry, disconnect(user_id) gives the registry
\* without the user's entry and with every other entry as it was; it gives
\* the registry itself when the user has no entry, so a second call changes
\* nothing; and the steps of the program that call it (the WebSocket handler
\* on a disconnect, a push that raised) change the registry in just that way.
C23_DisconnectIdempotent ==
    /\ [](\A u \in BroadcastUsers \cup {NeverRegistered} :
             LET d == disconnect(active_connections, u)
             IN /\ Without(active_connections, u, d)
                /\ disconnect(d, u) = d
                /\ u \notin DOMAIN active_connections => d = active_connections)
    /\ [][/\ \A c \in Chans :
               websocket_disconnected(c)
                  => /\ Without(active_connections, wsh[c].user_id, active_connections')
                     /\ wsh'[c].pc = "closed"
          /\ \A r \in Reqs :
               (broadcast_send_returns(r) /\ ~req[r].ok)
                  => Without(active_connections, req[r].keys[req[r].idx],
                             active_connections')]_vars

\* u1's entry was removed by a failed push of a broadcast and u1's handler
\* has called disconnect as well; u2's entry is still there
C23_Witness ==
    /\ wsh[1].pc = "closed" /\ wsh[1].user_id = "u1"
    /\ reply.op = "broadcast"
    /\ Len(reply.results) = 2
    /\ reply.results[1] = [user_id |-> "u1", ws |-> 1, ok |-> FALSE]
    /\ wsh[2].pc = "receive"
    /\ active_connections = [u \in {"u2"} |-> 2]

-----------------------------------------------------------------------------
(* Strings.  A Python str is the sequence of its characters, so that      *)
(* `term in text`, lower() and join() are computed on the characters.     *)

\* term in text
Contains(text, term) ==
    \E i \in 0..(Len(text) - Len(term)) : SubSeq(text, i + 1, i + Len(term)) = term

\* any(term in text for term in terms)
ContainsAny(text, terms) == \E k \in 1..Len(terms) : Contains(text, terms[k])

UpperCase == <<"A","B","C","D","E","F","G","H","I","J","K","L","M",
               "N","O","P","Q","R","S","T","U","V","W","X","Y","Z">>
LowerCase == <<"a","b","c","d","e","f","g","h","i","j","k","l","m",
               "n","o","p","q","r","s","t","u","v","w","x","y","z">>

LowerChar(c) ==
    IF \E k \in 1..Len(UpperCase) : UpperCase[k] = c
    THEN LowerCase[CHOOSE k \in 1..Len(UpperCase) : UpperCase[k] = c]
    ELSE c

\* str.lower()
RECURSIVE Lower(_)
Lower(text) ==
    IF text = <<>> THEN <<>> ELSE <<LowerChar(Head(text))>> \o Lower(Tail(text))

\* sep.join(parts)
RECURSIVE Join(_, _)
Join(sep, parts) ==
    IF parts = <<>> THEN <<>>
    ELSE IF Len(parts) = 1 THEN parts[1]
    ELSE parts[1] \o sep \o Join(sep, Tail(parts))

-----------------------------------------------------------------------------
(* Activity categories *)

OUTDOOR_MIN_TEMP_C == -25
OUTDOOR_MAX_TEMP_C == 38

ACTIVITY_CATEGORIES_indoor ==
    [time_key \in {"early_morning", "morning", "noon", "evening", "night"} |->
       CASE time_key = "early_morning" ->
           \* gym, fitness center, yoga studio
           <<
              <<"g","y","m">>,
              <<"f","i","t","n","e","s","s"," ","c","e","n","t","e","r">>,
              <<"y","o","g","a"," ","s","t","u","d","i","o">> >>
         [] time_key = "morning" ->
           \* museum, art gallery, library, bookstore, shopping mall, aquarium
           <<
              <<"m","u","s","e","u","m">>,
              <<"a","r","t"," ","g","a","l","l","e","r","y">>,
              <<"l","i","b","r","a","r","y">>,
              <<"b","o","o","k","s","t","o","r","e">>,
              <<"s","h","o","p","p","i","n","g"," ","m","a","l","l">>,
              <<"a","q","u","a","r","i","u","m">> >>
         [] time_key = "noon" ->
           \* arcade, amusement center, bowling alley, shopping mall, movie theater, museum, art gallery, aquarium, spa
           <<
              <<"a","r","c","a","d","e">>,
              <<"a","m","u","s","e","m","e","n","t"," ","c","e","n","t","e","r">>,
              <<"b","o","w","l","i","n","g"," ","a","l","l","e","y">>,
              <<"s","h","o","p","p","i","n","g"," ","m","a","l","l">>,
              <<"m","o","v","i","e"," ","t","h","e","a","t","e","r">>,
              <<"m","u","s","e","u","m">>,
              <<"a","r","t"," ","g","a","l","l","e","r","y">>,
              <<"a","q","u","a","r","i","u","m">>,
              <<"s","p","a">> >>
         [] time_key = "evening" ->
           \* bowling alley, movie theater, arcade, casino, shopping mall, gym, spa
           <<
              <<"b","o","w","l","i","n","g"," ","a","l","l","e","y">>,
              <<"m","o","v","i","e"," ","t","h","e","a","t","e","r">>,
              <<"a","r","c","a","d","e">>,
              <<"c","a","s","i","n","o">>,
              <<"s","h","o","p","p","i","n","g"," ","m","a","l","l">>,
              <<"g","y","m">>,
              <<"s","p","a">> >>
         [] time_key = "night" ->
           \* night club, casino, movie theater, bar
           <<
              <<"n","i","g","h","t"," ","c","l","u","b">>,
              <<"c","a","s","i","n","o">>,
              <<"m","o","v","i","e"," ","t","h","e","a","t","e","r">>,
              <<"b","a","r">> >>
    ]

ACTIVITY_CATEGORIES_outdoor ==
    [time_key \in {"early_morning", "morning", "noon", "evening", "night"} |->
       CASE time_key = "early_morning" ->
           \* park, hiking trail, nature preserve, garden, bike trail
           <<
              <<"p","a","r","k">>,
              <<"h","i","k","i","n","g"," ","t","r","a","i","l">>,
              <<"n","a","t","u","r","e"," ","p","r","e","s","e","r","v","e">>,
              <<"g","a","r","d","e","n">>,
              <<"b","i","k","e"," ","t","r","a","i","l">> >>
         [] time_key = "morning" ->
           \* tourist attraction, zoo, botanical garden, park, marina, scenic viewpoint
           <<
              <<"t","o","u","r","i","s","t"," ","a","t","t","r","a","c","t","i","o","n">>,
              <<"z","o","o">>,
              <<"b","o","t","a","n","i","c","a","l"," ","g","a","r","d","e","n">>,
              <<"p","a","r","k">>,
              <<"m","a","r","i","n","a">>,
              <<"s","c","e","n","i","c"," ","v","i","e","w","p","o","i","n","t">> >>
         [] time_key = "noon" ->
           \* beach, water park, theme park, zoo, tourist attraction, stadium, sports complex, marina, playground
           <<
              <<"b","e","a","c","h">>,
              <<"w","a","t","e","r"," ","p","a","r","k">>,
              <<"t","h","e","m","e"," ","p","a","r","k">>,
              <<"z","o","o">>,
              <<"t","o","u","r","i","s","t"," ","a","t","t","r","a","c","t","i","o","n">>,
              <<"s","t","a","d","i","u","m">>,
              <<"s","p","o","r","t","s"," ","c","o","m","p","l","e","x">>,
              <<"m","a","r","i","n","a">>,
              <<"p","l","a","y","g","r","o","u","n","d">> >>
         [] time_key = "evening" ->
           \* park, tourist attraction, stadium, sports complex, marina, theme park
           <<
              <<"p","a","r","k">>,
              <<"t","o","u","r","i","s","t"," ","a","t","t","r","a","c","t","i","o","n">>,
              <<"s","t","a","d","i","u","m">>,
              <<"s","p","o","r","t","s"," ","c","o","m","p","l","e","x">>,
              <<"m","a","r","i","n","a">>,
              <<"t","h","e","m","e"," ","p","a","r","k">> >>
         [] time_key = "night" ->
           \* night club, casino
           <<
              <<"n","i","g","h","t"," ","c","l","u","b">>,
              <<"c","a","s","i","n","o">> >>
    ]

ACTIVITY_CATEGORIES(activity_type) ==
    IF activity_type = "indoor" THEN ACTIVITY_CATEGORIES_indoor
                                ELSE ACTIVITY_CATEGORIES_outdoor

get_time_period_key(hour) ==
    IF 5 <= hour /\ hour < 8 THEN "early_morning"
    ELSE IF 8 <= hour /\ hour < 12 THEN "morning"
    ELSE IF 12 <= hour /\ hour < 17 THEN "noon"
    ELSE IF 17 <= hour /\ hour < 21 THEN "evening"
    ELSE "night"

is_outdoor_suitable_any_rain(weather, temperature) ==
    IF temperature < OUTDOOR_MIN_TEMP_C \/ temperature > OUTDOOR_MAX_TEMP_C THEN FALSE
    ELSE IF weather = "rainy" THEN FALSE
    ELSE TRUE

is_outdoor_suitable(weather, temperature) ==
    IF temperature < OUTDOOR_MIN_TEMP_C \/ temperature > OUTDOOR_MAX_TEMP_C THEN FALSE
    ELSE IF weather = "rainy" /\ temperature < 10 THEN FALSE
    ELSE TRUE

\* beach, water park, marina, boat rental
water_activities ==
    <<
       <<"b","e","a","c","h">>,
       <<"w","a","t","e","r"," ","p","a","r","k">>,
       <<"m","a","r","i","n","a">>,
       <<"b","o","a","t"," ","r","e","n","t","a","l">> >>
\* ice skating, ski area, sledding
cold_weather_activities ==
    <<
       <<"i","c","e"," ","s","k","a","t","i","n","g">>,
       <<"s","k","i"," ","a","r","e","a">>,
       <<"s","l","e","d","d","i","n","g">> >>
\* hiking trail, park, playground, sports complex, stadium
rain_sensitive ==
    <<
       <<"h","i","k","i","n","g"," ","t","r","a","i","l">>,
       <<"p","a","r","k">>,
       <<"p","l","a","y","g","r","o","u","n","d">>,
       <<"s","p","o","r","t","s"," ","c","o","m","p","l","e","x">>,
       <<"s","t","a","d","i","u","m">> >>
\* mall, market, covered, indoor
covered_terms ==
    <<
       <<"m","a","l","l">>,
       <<"m","a","r","k","e","t">>,
       <<"c","o","v","e","r","e","d">>,
       <<"i","n","d","o","o","r">> >>

\* The branch of the loop body of filter_activities_by_weather for one activity
KeepsActivity(activity, weather, temperature) ==
    LET activity_lower == Lower(activity)
    IN IF weather = "snowy" \/ temperature < -5
       THEN \/ ContainsAny(activity_lower, cold_weather_activities)
            \/ ~ContainsAny(activity_lower, water_activities)
       ELSE IF weather = "rainy"
       THEN \/ ContainsAny(activity_lower, covered_terms)
            \/ ~ContainsAny(activity_lower, rain_sensitive)
       ELSE IF temperature < 10
       THEN ~ContainsAny(activity_lower, water_activities)
       ELSE TRUE

filter_activities_by_weather_or_nothing(activities, weather, temperature) ==
    LET Keeps(activity) == KeepsActivity(activity, weather, temperature)
    IN SelectSeq(activities, Keeps)

filter_activities_by_weather(activities, weather, temperature) ==
    LET Keeps(activity) == KeepsActivity(activity, weather, temperature)
        filtered == SelectSeq(activities, Keeps)
    IN IF filtered # <<>> THEN filtered ELSE activities

\* Every caller passes a temperature (server.py:883-888), so of the test
\* `weather and temperature is not None` the truthiness of weather remains.
get_activity_search_terms(activity_type, time_period, weather, temperature) ==
    LET time_key == IF time_period \in DOMAIN ACTIVITY_CATEGORIES(activity_type)
                    THEN time_period ELSE "morning"
    IN IF activity_type = "indoor"
       THEN ACTIVITY_CATEGORIES("indoor")[time_key]
       ELSE IF Truthy(weather) /\ ~is_outdoor_suitable(weather, temperature)
       THEN ACTIVITY_CATEGORIES("indoor")[time_key]
       ELSE IF Truthy(weather)
       THEN LET filtered == filter_activities_by_weather(
                                ACTIVITY_CATEGORIES("outdoor")[time_key], weather, temperature)
            IN IF filtered # <<>> THEN filtered
                                  ELSE ACTIVITY_CATEGORIES("outdoor")[time_key]
       ELSE ACTIVITY_CATEGORIES("outdoor")[time_key]

-----------------------------------------------------------------------------
(* Place search *)

\* The cuisines of CUISINE_CATEGORIES with their search terms
CUISINE_CATEGORIES ==
    [cuisine \in {"Italian", "Burgers", "Pizza", "Asian", "French", "Mexican", "Cafe", "Chinese", "Japanese", "Indian", "Thai", "Korean", "Mediterranean", "Vietnamese", "Greek", "Seafood", "Steakhouse"} |->
       CASE cuisine = "Italian" -> <<"i","t","a","l","i","a","n"," ","r","e","s","t","a","u","r","a","n","t">>  \* italian restaurant
         [] cuisine = "Burgers" -> <<"b","u","r","g","e","r"," ","r","e","s","t","a","u","r","a","n","t">>  \* burger restaurant
         [] cuisine = "Pizza" -> <<"p","i","z","z","a"," ","r","e","s","t","a","u","r","a","n","t">>  \* pizza restaurant
         [] cuisine = "Asian" -> <<"a","s","i","a","n"," ","r","e","s","t","a","u","r","a","n","t">>  \* asian restaurant
         [] cuisine = "French" -> <<"f","r","e","n","c","h"," ","r","e","s","t","a","u","r","a","n","t">>  \* french restaurant
         [] cuisine = "Mexican" -> <<"m","e","x","i","c","a","n"," ","r","e","s","t","a","u","r","a","n","t">>  \* mexican restaurant
         [] cuisine = "Cafe" -> <<"c","a","f","e"," ","c","o","f","f","e","e"," ","s","h","o","p">>  \* cafe coffee shop
         [] cuisine = "Chinese" -> <<"c","h","i","n","e","s","e"," ","r","e","s","t","a","u","r","a","n","t">>  \* chinese restaurant
         [] cuisine = "Japanese" -> <<"j","a","p","a","n","e","s","e"," ","r","e","s","t","a","u","r","a","n","t"," ","s","u","s","h","i">>  \* japanese restaurant sushi
         [] cuisine = "Indian" -> <<"i","n","d","i","a","n"," ","r","e","s","t","a","u","r","a","n","t">>  \* indian restaurant
         [] cuisine = "Thai" -> <<"t","h","a","i"," ","r","e","s","t","a","u","r","a","n","t">>  \* thai restaurant
         [] cuisine = "Korean" -> <<"k","o","r","e","a","n"," ","r","e","s","t","a","u","r","a","n","t">>  \* korean restaurant
         [] cuisine = "Mediterranean" -> <<"m","e","d","i","t","e","r","r","a","n","e","a","n"," ","r","e","s","t","a","u","r","a","n","t">>  \* mediterranean restaurant
         [] cuisine = "Vietnamese" -> <<"v","i","e","t","n","a","m","e","s","e"," ","r","e","s","t","a","u","r","a","n","t">>  \* vietnamese restaurant
         [] cuisine = "Greek" -> <<"g","r","e","e","k"," ","r","e","s","t","a","u","r","a","n","t">>  \* greek restaurant
         [] cuisine = "Seafood" -> <<"s","e","a","f","o","o","d"," ","r","e","s","t","a","u","r","a","n","t">>  \* seafood restaurant
         [] cuisine = "Steakhouse" -> <<"s","t","e","a","k","h","o","u","s","e">>  \* steakhouse
    ]

\* breakfast restaurant, cafe, coffee shop, brunch restaurant, bakery, breakfast diner
breakfast_terms ==
    <<
       <<"b","r","e","a","k","f","a","s","t"," ","r","e","s","t","a","u","r","a","n","t">>,
       <<"c","a","f","e">>,
       <<"c","o","f","f","e","e"," ","s","h","o","p">>,
       <<"b","r","u","n","c","h"," ","r","e","s","t","a","u","r","a","n","t">>,
       <<"b","a","k","e","r","y">>,
       <<"b","r","e","a","k","f","a","s","t"," ","d","i","n","e","r">> >>

\* lunch restaurant, restaurant, bistro, cafe, fast food, deli
lunch_terms ==
    <<
       <<"l","u","n","c","h"," ","r","e","s","t","a","u","r","a","n","t">>,
       <<"r","e","s","t","a","u","r","a","n","t">>,
       <<"b","i","s","t","r","o">>,
       <<"c","a","f","e">>,
       <<"f","a","s","t"," ","f","o","o","d">>,
       <<"d","e","l","i">> >>

\* dinner restaurant, restaurant, fine dining, steakhouse, gastropub
dinner_terms ==
    <<
       <<"d","i","n","n","e","r"," ","r","e","s","t","a","u","r","a","n","t">>,
       <<"r","e","s","t","a","u","r","a","n","t">>,
       <<"f","i","n","e"," ","d","i","n","i","n","g">>,
       <<"s","t","e","a","k","h","o","u","s","e">>,
       <<"g","a","s","t","r","o","p","u","b">> >>

RECURSIVE CuisineTerms(_)
CuisineTerms(preferred_cuisines) ==
    IF preferred_cuisines = <<>> THEN <<>>
    ELSE (IF Head(preferred_cuisines) \in DOMAIN CUISINE_CATEGORIES
          THEN <<CUISINE_CATEGORIES[Head(preferred_cuisines)]>> ELSE <<>>)
         \o CuisineTerms(Tail(preferred_cuisines))

build_google_search_query(preferences, meal_type) ==
    IF ~Truthy(meal_type) THEN <<>>
    ELSE CuisineTerms(preferences.preferred_cuisines)
         \o (IF meal_type = "breakfast" THEN breakfast_terms
             ELSE IF meal_type = "lunch" THEN lunch_terms
             ELSE IF meal_type = "dinner" THEN dinner_terms
             ELSE <<>>)

\* result.get("types", [])[:3] and the like
Slice(s, n) == FirstN(s, n)

\* search_places_nearby after its await: response is what the HTTP client
\* gave (kind "timeout": client.get raised; "http_error": a status code other
\* than 200; otherwise the JSON status OK, ZERO_RESULTS, REQUEST_DENIED or
\* another one).  The value is what the call gives its caller: the places,
\* or the exception it raises.
search_places_nearby(response, limit) ==
    IF response.kind = "timeout"
    THEN [raised |-> "TimeoutException", places |-> <<>>]
    ELSE IF response.kind = "http_error"
    THEN [raised |-> "HTTPException", places |-> <<>>]
    ELSE IF response.kind = "OK"
    THEN [raised |-> None,
          places |-> [i \in 1..Len(Slice(response.results, limit)) |->
                        [name |-> response.results[i].name,
                         categories |-> Slice(response.results[i].types, 3)]]]
    ELSE IF response.kind = "ZERO_RESULTS"
    THEN [raised |-> None, places |-> <<>>]
    ELSE [raised |-> "HTTPException", places |-> <<>>]

-----------------------------------------------------------------------------
(* Recommendation engine *)

\* restaurant, cafe, food, dining, bakery, bistro, eatery, coffee
restaurant_food_terms ==
    <<
       <<"r","e","s","t","a","u","r","a","n","t">>,
       <<"c","a","f","e">>,
       <<"f","o","o","d">>,
       <<"d","i","n","i","n","g">>,
       <<"b","a","k","e","r","y">>,
       <<"b","i","s","t","r","o">>,
       <<"e","a","t","e","r","y">>,
       <<"c","o","f","f","e","e">> >>

\* restaurant, cafe, dining, cuisine, bistro, eatery, food
activity_food_terms ==
    <<
       <<"r","e","s","t","a","u","r","a","n","t">>,
       <<"c","a","f","e">>,
       <<"d","i","n","i","n","g">>,
       <<"c","u","i","s","i","n","e">>,
       <<"b","i","s","t","r","o">>,
       <<"e","a","t","e","r","y">>,
       <<"f","o","o","d">> >>

\* is_food_place of either loop: any(term in categories_str or term in name_lower)
is_food_place(place, terms) ==
    LET categories_str == Lower(Join(<<" ">>, place.categories))
        name_lower == Lower(place.name)
    IN \E k \in 1..Len(terms) :
          Contains(categories_str, terms[k]) \/ Contains(name_lower, terms[k])

RestaurantRecommendation(restaurant) ==
    [name |-> restaurant.name, type |-> <<"r","e","s","t","a","u","r","a","n","t">>,
     description |-> Join(<<",", " ">>, Slice(restaurant.categories, 3))]

ActivityRecommendation(activity) ==
    [name |-> activity.name,
     type |-> IF activity.categories # <<>> THEN activity.categories[1]
                                            ELSE <<"a","c","t","i","v","i","t","y">>,
     description |-> Join(<<",", " ">>, Slice(activity.categories, 3))]

\* for restaurant in restaurants[:8]: the first 8 places, then the filter
RestaurantCandidates(restaurants) ==
    LET Food(restaurant) == is_food_place(restaurant, restaurant_food_terms)
    IN SelectSeq(Slice(restaurants, 8), Food)

\* The loop over restaurants: appends one recommendation per candidate
AddRestaurants(recommendations, restaurants) ==
    LET candidates == RestaurantCandidates(restaurants)
    IN recommendations \o
          [i \in 1..Len(candidates) |-> RestaurantRecommendation(candidates[i])]

ReachedLimitNever(n) == FALSE

\* len(recommendations) >= 10
ReachedLimit(n) == n >= 10

\* The loop over activities: a place that is not a food place is appended,
\* and the loop is left once the list has 10 entries
RECURSIVE AddActivities(_, _)
AddActivities(recommendations, activities) ==
    IF activities = <<>> THEN recommendations
    ELSE IF is_food_place(Head(activities), activity_food_terms)
    THEN AddActivities(recommendations, Tail(activities))
    ELSE IF ReachedLimit(Len(recommendations) + 1)
    THEN Append(recommendations, ActivityRecommendation(Head(activities)))
    ELSE AddActivities(Append(recommendations, ActivityRecommendation(Head(activities))),
                       Tail(activities))

-----------------------------------------------------------------------------
(* POST /api/recommendations *)

\* get_weather after its await: the weather dict on status 200; on another
\* status the function only logs and so returns None, written EmptyDict
\* here (subscripting it fails); a timeout of client.get is raised.
get_weather(response) ==
    IF response.kind = "timeout" THEN [raised |-> "TimeoutException", data |-> EmptyDict]
    ELSE IF response.kind = "http_error" THEN [raised |-> None, data |-> EmptyDict]
    ELSE [raised |-> None,
          data |-> [field \in {"weather", "temperature"} |->
                      IF field = "weather" THEN response.weather
                                           ELSE response.temperature]]

\* An exception no handler catches: the framework answers 500
Crash(r, q, exception) ==
    /\ req' = [req EXCEPT ![r] = IdleReq]
    /\ reply' = [q EXCEPT !.pc = "done",
                          !.resp = [status |-> 500, raised |-> exception]]

\* The dict get_recommendations returns
RecommendationsResponse(q) ==
    [status |-> 200, recommendations |-> q.recommendations,
     context |-> [time_hour |-> q.current_hour,
                  weather |-> q.weather_data["weather"],
                  temperature |-> q.weather_data["temperature"]],
     timestamp |-> clock]

RecommendationsReturn(r, q) ==
    IF "weather" \notin DOMAIN q.weather_data
    THEN Crash(r, q, "TypeError")
    ELSE /\ req' = [req EXCEPT ![r] = IdleReq]
         /\ reply' = [q EXCEPT !.pc = "done", !.resp = RecommendationsResponse(q)]

\* generate_recommendations, PART 2 up to its await
ActivityPart(r, q) ==
    IF ~(~Truthy(q.meal_type) \/ Len(q.recommendations) < 10)
    THEN RecommendationsReturn(r, q)
    ELSE IF "weather" \notin DOMAIN q.weather_data
    THEN Crash(r, q, "TypeError")
    ELSE LET activity_search_terms ==
                 get_activity_search_terms(q.preferences.activity_type,
                                           get_time_period_key(q.current_hour),
                                           q.weather_data["weather"],
                                           q.weather_data["temperature"])
         IN IF activity_search_terms = <<>>
            THEN RecommendationsReturn(r, q)
            ELSE /\ req' = [req EXCEPT ![r] =
                              [q EXCEPT !.pc = "gr_activity",
                                        !.activity_search_terms = activity_search_terms]]
                 /\ reply' = reply

\* get_recommendations up to `await get_weather(...)`
get_recommendations(r, preferences, location, current_hour) ==
    /\ Free(r)
    /\ clock' = clock + 1
    /\ IF ~(UserPreferencesValid(preferences) /\ LocationDataValid(location))
       THEN /\ reply' = Rejected("get_recommendations", preferences.user_id)
            /\ req' = req
       ELSE /\ req' = [req EXCEPT ![r] =
                         [IdleReq EXCEPT !.pc = "gr_weather", !.op = "get_recommendations",
                                         !.user_id = preferences.user_id,
                                         !.preferences = preferences,
                                         !.location = location,
                                         !.current_hour = current_hour]]
            /\ reply' = reply
    /\ UNCHANGED <<user_preferences_store, user_last_context, user_notifications,
                   active_connections, chan, wsh, generated>>

\* get_weather returns or raises; generate_recommendations runs up to the
\* restaurant search, or up to the activity search when it is no meal time
recommendations_weather_returns(r, response) ==
    /\ req[r].pc = "gr_weather"
    /\ LET w == get_weather(response)
           meal_type == get_meal_type(req[r].current_hour, req[r].preferences.meal_times)
           restaurant_search_terms == build_google_search_query(req[r].preferences, meal_type)
           q == [req[r] EXCEPT !.weather_data = w.data, !.meal_type = meal_type]
       IN IF w.raised # None
          THEN Crash(r, req[r], w.raised)
          ELSE IF Truthy(meal_type) /\ restaurant_search_terms # <<>>
          THEN /\ req' = [req EXCEPT ![r] =
                            [q EXCEPT !.pc = "gr_meal",
                                      !.restaurant_search_terms = restaurant_search_terms]]
               /\ reply' = reply
          ELSE ActivityPart(r, q)
    /\ UNCHANGED <<user_preferences_store, user_last_context, user_notifications,
                   active_connections, chan, wsh, clock, generated>>

\* The restaurant search returns or raises: an HTTPException is logged,
\* anything else leaves the handler
recommendations_meal_returns(r, response) ==
    /\ req[r].pc = "gr_meal"
    /\ LET s == search_places_nearby(response, 30)
       IN IF s.raised = "HTTPException"
          THEN ActivityPart(r, [req[r] EXCEPT !.meal_search = "HTTPException"])
          ELSE IF s.raised # None
          THEN Crash(r, [req[r] EXCEPT !.meal_search = s.raised], s.raised)
          ELSE ActivityPart(r, [req[r] EXCEPT
                                   !.meal_search = "returned",
                                   !.restaurants = s.places,
                                   !.recommendations = AddRestaurants(@, s.places)])
    /\ UNCHANGED <<user_preferences_store, user_last_context, user_notifications,
                   active_connections, chan, wsh, clock, generated>>

\* The activity search returns or raises
recommendations_activity_returns(r, response) ==
    /\ req[r].pc = "gr_activity"
    /\ LET s == search_places_nearby(response, 30)
       IN IF s.raised = "HTTPException"
          THEN RecommendationsReturn(r, [req[r] EXCEPT !.activity_search = "HTTPException"])
          ELSE IF s.raised # None
          THEN Crash(r, [req[r] EXCEPT !.activity_search = s.raised], s.raised)
          ELSE RecommendationsReturn(r, [req[r] EXCEPT
                                   !.activity_search = "returned",
                                   !.activities = s.places,
                                   !.recommendations = AddActivities(@, s.places)])
    /\ UNCHANGED <<user_preferences_store, user_last_context, user_notifications,
                   active_connections, chan, wsh, clock, generated>>

-----------------------------------------------------------------------------
(* Recommendation requests: one request, the providers' answers drawn     *)
(* from result lists of three kinds of places and from their failures     *)

MaxLead == 1
MaxRun == 11

DigitChars == <<"0","1","2","3","4","5","6","7","8","9">>

\* str(n) for n < 100
NumStr(n) == IF n < 10 THEN <<DigitChars[n + 1]>>
             ELSE <<DigitChars[(n \div 10) + 1], DigitChars[(n % 10) + 1]>>

\* A result of the place provider: restaurants R1, R2, ... (food places for
\* both loops), bakeries B1, ... (food places for the restaurant loop only)
\* and museums M1, ... (no food places)
Place(kind, n) ==
    IF kind = "restaurant"
    THEN [name |-> <<"R">> \o NumStr(n), types |-> << <<"r","e","s","t","a","u","r","a","n","t">>, <<"f","o","o","d">> >>]
    ELSE IF kind = "bakery"
    THEN [name |-> <<"B">> \o NumStr(n), types |-> << <<"b","a","k","e","r","y">>, <<"s","t","o","r","e">> >>]
    ELSE [name |-> <<"M">> \o NumStr(n), types |-> << <<"m","u","s","e","u","m">> >>]

PlaceKinds == {"restaurant", "bakery", "museum"}

Run(kind, n) == [i \in 1..n |-> Place(kind, i)]

\* The result lists: up to MaxLead places of one kind, then up to MaxRun of
\* another
ResultLists ==
    {Run(k1, a) \o Run(k2, b) : k1 \in PlaceKinds, a \in 0..MaxLead,
                                k2 \in PlaceKinds, b \in 0..MaxRun}
      \ {Run(k, a) \o Run(k, b) : k \in PlaceKinds, a \in 1..MaxLead, b \in 1..MaxRun}

PlaceFailures == {[kind |-> "timeout"], [kind |-> "http_error"],
                  [kind |-> "REQUEST_DENIED"], [kind |-> "UNKNOWN_ERROR"]}

PlaceResponses ==
    {[kind |-> "OK", results |-> l] : l \in ResultLists}
       \cup {[kind |-> "ZERO_RESULTS"]} \cup PlaceFailures

WeatherResponses == {[kind |-> "ok", weather |-> "sunny", temperature |-> 20],
                     [kind |-> "http_error"], [kind |-> "timeout"]}

RecommendHours == {12, 15}

NextRecommend ==
    \/ /\ reply.op = "none" /\ Quiet
       /\ \E r \in Reqs, h \in RecommendHours :
             get_recommendations(r, PrefsLunch("u1"), LocCentre, h)
    \/ \E r \in Reqs, w \in WeatherResponses : recommendations_weather_returns(r, w)
    \/ \E r \in Reqs, p \in PlaceResponses : recommendations_meal_returns(r, p)
    \/ \E r \in Reqs, p \in PlaceResponses : recommendations_activity_returns(r, p)

SpecRecommend == Init /\ [][NextRecommend]_vars

-----------------------------------------------------------------------------
(* The list a recommendation request returns *)

\* A recommendation request returned its dict
Recommended == reply.op = "get_recommendations" /\ reply.resp.status = 200

IsRestaurant(recommendation) == recommendation.type = <<"r","e","s","t","a","u","r","a","n","t">>

Restaurants(recommendations) ==
    {i \in 1..Len(recommendations) : IsRestaurant(recommendations[i])}

\* The places of a result list that the activity loop does not skip
Eligible(activities) ==
    LET NoFood(activity) == ~is_food_place(activity, activity_food_terms)
    IN SelectSeq(activities, NoFood)

\* The places of a result list that match the restaurant loop's heuristic
FoodMatches(restaurants) ==
    {i \in 1..Len(restaurants) : is_food_place(restaurants[i], restaurant_food_terms)}

Min(a, b) == IF a < b THEN a ELSE b

\* C24: a returned list has at most 10 entries, its restaurants come before
\* everything else, and after the n restaurants come the first 10 - n
\* places of the activity results that are not food places (all of them if
\* there are fewer), in their order, and nothing more.
C24_AtMostTenMealsFirst ==
    Recommended =>
       LET recs == reply.resp.recommendations
           n == Cardinality(Restaurants(recs))
           e == Eligible(reply.activities)
       IN /\ Len(recs) <= 10
          /\ Restaurants(recs) = 1..n
          /\ n <= 8
          /\ Len(recs) = n + Min(Len(e), 10 - n)
          /\ [i \in 1..(Len(recs) - n) |-> recs[n + i].name]
                = [i \in 1..(Len(recs) - n) |-> e[i].name]

\* 8 restaurants were recommended and the activity search gave 3 places
\* that are no food places: the list has the first 2 of them
C24_Witness ==
    /\ Recommended
    /\ Len(reply.resp.recommendations) = 10
    /\ Restaurants(reply.resp.recommendations) = 1..8
    /\ Len(Eligible(reply.activities)) = 3
    /\ reply.resp.recommendations[10].name = Eligible(reply.activities)[2].name


\* The restaurant search of the returned request gave a result list
MealSearched == Recommended /\ reply.meal_search = "returned"

\* C25: when the restaurant search gave a result list, a list with at
\* least 8 places matching the food heuristic, at whatever positions, gives
\* exactly 8 restaurant recommendations, and every restaurant
\* recommendation is a place of the list that matches the heuristic.
C25_EightFoodMatches ==
    MealSearched =>
       LET recs == reply.resp.recommendations
       IN /\ Cardinality(FoodMatches(reply.restaurants)) >= 8
               => Cardinality(Restaurants(recs)) = 8
          /\ \A i \in Restaurants(recs) :
                \E k \in FoodMatches(reply.restaurants) :
                   reply.restaurants[k].name = recs[i].name


\* C26: no place appears more than once in a returned list.
C26_NoDuplicates ==
    Recommended =>
       \A i, j \in 1..Len(reply.resp.recommendations) :
          i # j => reply.resp.recommendations[i].name # reply.resp.recommendations[j].name


\* C27: in a request that has its weather, a failure of the restaurant
\* search leaves the list as it was and the activity search is still made;
\* a failure of the activity search leaves the list as it was and the
\* request returns it.
C27_PlaceFailureIsNoResults ==
    [][\A r \in Reqs, p \in PlaceFailures :
          "weather" \in DOMAIN req[r].weather_data =>
          /\ recommendations_meal_returns(r, p)
                => /\ req'[r].pc = "gr_activity"
                   /\ req'[r].recommendations = req[r].recommendations
          /\ recommendations_activity_returns(r, p)
                => /\ reply'.resp.status = 200
                   /\ reply'.resp.recommendations = req[r].recommendations]_vars


WeatherFailures == {w \in WeatherResponses : w.kind # "ok"}

\* C28: when the weather provider times out or answers with another status
\* than 200, the recommendation request goes on with a weather and a
\* temperature in place of the provider's answer and does not fail.
C28_WeatherFallback ==
    [][\A r \in Reqs, w \in WeatherFailures :
          recommendations_weather_returns(r, w)
             => /\ req'[r].pc \in {"gr_meal", "gr_activity"}
                /\ DOMAIN req'[r].weather_data = {"weather", "temperature"}]_vars

\* The request whose answer is reply got no weather from the provider
NoWeather == reply.op = "get_recommendations" /\ reply.pc = "done"
                /\ "weather" \notin DOMAIN reply.weather_data

\* The place searches the request made all failed, and it made one
NoPlaces ==
    /\ reply.meal_search # "returned" /\ reply.activity_search # "returned"
    /\ reply.meal_search # "none" \/ reply.activity_search # "none"

\* C29: a request that got no weather and whose place searches failed
\* answers with a result that says that recommendations are unavailable:
\* neither an unhandled exception nor a list of recommendations.
C29_UnavailableResult ==
    (NoWeather /\ NoPlaces)
       => /\ reply.resp.status # 500
          /\ "recommendations" \notin DOMAIN reply.resp

-----------------------------------------------------------------------------
(* Activity search terms: requests at every hour of the day, in every     *)
(* weather and at the temperatures around the limits of the code          *)

TermsHours == 0..23
TermsWeather == {"sunny", "cloudy", "rainy", "snowy"}
TermsTemperatures == {-26, -25, -6, -5, 9, 10, 28, 29, 38, 39}

NextTerms ==
    \/ /\ reply.op = "none" /\ Quiet
       /\ \E r \in Reqs, h \in TermsHours, p \in {PrefsLunch("u1"), PrefsNoMeal("u1")} :
             get_recommendations(r, p, LocCentre, h)
    \/ \E r \in Reqs, w \in TermsWeather, t \in TermsTemperatures :
          recommendations_weather_returns(r, [kind |-> "ok", weather |-> w, temperature |-> t])
    \/ \E r \in Reqs : recommendations_meal_returns(r, [kind |-> "ZERO_RESULTS"])
    \/ \E r \in Reqs : recommendations_activity_returns(r, [kind |-> "ZERO_RESULTS"])

SpecTerms == Init /\ [][NextTerms]_vars

\* s is t with some of its entries left out
RECURSIVE IsSubList(_, _)
IsSubList(s, t) ==
    IF s = <<>> THEN TRUE
    ELSE IF t = <<>> THEN FALSE
    ELSE IF Head(s) = Head(t) THEN IsSubList(Tail(s), Tail(t))
    ELSE IsSubList(s, Tail(t))

\* The weather in which the outdoor profile is served indoor categories
Unsuitable(weather, temperature) ==
    \/ temperature < -25
    \/ temperature > 38
    \/ weather = "rainy" /\ temperature < 10

\* Request q has computed its activity search terms
HasTerms(q) == q.op = "get_recommendations" /\ q.pc \in {"gr_activity", "done"}

\* C30: for an outdoor profile the activity categories searched are the
\* indoor list of the time period when the weather is unsuitable, and
\* otherwise a non-empty sub-list of the period's outdoor list.
C30_OutdoorTerms ==
    \A q \in {req[r] : r \in Reqs} \cup {reply} :
       (HasTerms(q) /\ q.preferences.activity_type = "outdoor")
          => LET time_key == get_time_period_key(q.current_hour)
                 weather == q.weather_data["weather"]
                 temperature == q.weather_data["temperature"]
             IN IF Unsuitable(weather, temperature)
                THEN q.activity_search_terms = ACTIVITY_CATEGORIES_indoor[time_key]
                ELSE /\ q.activity_search_terms # <<>>
                     /\ IsSubList(q.activity_search_terms,
                                  ACTIVITY_CATEGORIES_outdoor[time_key])

\* An outdoor profile at 15 h in rain at 9 degrees searches the nine
\* indoor categories of noon
C30_Witness ==
    /\ req[1].pc = "gr_activity"
    /\ req[1].preferences.activity_type = "outdoor"
    /\ req[1].current_hour = 15
    /\ req[1].weather_data["weather"] = "rainy"
    /\ req[1].weather_data["temperature"] = 9
    /\ Len(req[1].activity_search_terms) = 9
    /\ req[1].activity_search_terms = ACTIVITY_CATEGORIES_indoor["noon"]
    /\ req[1].activity_search_terms # ACTIVITY_CATEGORIES_outdoor["noon"]

-----------------------------------------------------------------------------
(* filter_activities_by_weather on lists of categories of its own: the    *)
(* caller holds a list, a weather and a temperature and calls it          *)

MaxActivities == 2

\* park, beach, Water Park, ice skating, zoo, shopping mall
FilterCategories ==
    {<<"p","a","r","k">>,
     <<"b","e","a","c","h">>,
     <<"W","a","t","e","r"," ","P","a","r","k">>,
     <<"i","c","e"," ","s","k","a","t","i","n","g">>,
     <<"z","o","o">>,
     <<"s","h","o","p","p","i","n","g"," ","m","a","l","l">>}

\* The lists of up to n categories
RECURSIVE ListsUpTo(_, _)
ListsUpTo(S, n) ==
    IF n = 0 THEN {<<>>}
    ELSE ListsUpTo(S, n - 1)
            \cup {Append(l, x) : l \in ListsUpTo(S, n - 1), x \in S}

FilterInputs ==
    ListsUpTo(FilterCategories, MaxActivities)
       \cup {ACTIVITY_CATEGORIES_outdoor[k] : k \in DOMAIN ACTIVITY_CATEGORIES_outdoor}

InitFilter ==
    /\ user_preferences_store = EmptyDict
    /\ user_last_context = EmptyDict
    /\ user_notifications = EmptyDict
    /\ active_connections = EmptyDict
    /\ chan = [c \in Chans |-> [open |-> TRUE, delivered |-> <<>>, inbox |-> <<>>]]
    /\ wsh = [c \in Chans |-> [pc |-> "new", user_id |-> None, ok |-> FALSE]]
    /\ req = [r \in Reqs |-> IdleReq]
    /\ clock = 0
    /\ generated = [u \in Users |-> <<>>]
    /\ \E activities \in FilterInputs, w \in TermsWeather, t \in TermsTemperatures :
          reply = [IdleReq EXCEPT !.pc = "call", !.op = "filter_activities_by_weather",
                                  !.activity_search_terms = activities,
                                  !.weather_data = [weather |-> w, temperature |-> t]]

\* The call: reply keeps the arguments and gets the value returned
filter_call ==
    /\ reply.pc = "call"
    /\ reply.op = "filter_activities_by_weather"
    /\ reply' = [reply EXCEPT !.pc = "done",
                              !.resp = [filtered |-> filter_activities_by_weather(
                                                        reply.activity_search_terms,
                                                        reply.weather_data.weather,
                                                        reply.weather_data.temperature)]]
    /\ UNCHANGED <<user_preferences_store, user_last_context, user_notifications,
                   active_connections, chan, wsh, req, clock, generated>>

SpecFilter == InitFilter /\ [][filter_call]_vars

Filtered == reply.op = "filter_activities_by_weather" /\ reply.pc = "done"

\* C31: the list returned is the input with some entries left out, in the
\* input's order; it is empty only for an empty input; and when no entry
\* of the input passes the weather rules it is the input itself.
C31_FilterFailsOpen ==
    Filtered =>
       LET activities == reply.activity_search_terms
           filtered == reply.resp.filtered
       IN /\ IsSubList(filtered, activities)
          /\ activities # <<>> => filtered # <<>>
          /\ (\A i \in 1..Len(activities) :
                 ~KeepsActivity(activities[i], reply.weather_data.weather,
                                reply.weather_data.temperature))
                => filtered = activities

\* In rain at 10 degrees both park and Water Park are dropped by the rain
\* rule, and the list is returned as it was
C31_Witness ==
    /\ Filtered
    /\ reply.weather_data = [weather |-> "rainy", temperature |-> 10]
    /\ reply.activity_search_terms = << <<"p","a","r","k">>, <<"W","a","t","e","r"," ","P","a","r","k">> >>
    /\ ~KeepsActivity(reply.activity_search_terms[1], "rainy", 10)
    /\ ~KeepsActivity(reply.activity_search_terms[2], "rainy", 10)
    /\ reply.resp.filtered = reply.activity_search_terms

-----------------------------------------------------------------------------
(* Meal matching: recommendation requests at every hour of the day with   *)
(* up to MaxMeals meals declared in every order                           *)

MaxMeals == 2

MealNames == {"breakfast", "lunch", "dinner"}
MealClockTimes == {HHMM("0", "0"), HHMM("1", "1"), HHMM("1", "2"), HHMM("2", "3")}

\* The meal_times dicts: up to n entries with different keys, in every order
RECURSIVE MealTimesUpTo(_)
MealTimesUpTo(n) ==
    IF n = 0 THEN {<<>>}
    ELSE MealTimesUpTo(n - 1)
            \cup {Append(m, <<meal, time>>) :
                     m \in {x \in MealTimesUpTo(n - 1) : Len(x) = n - 1},
                     meal \in MealNames, time \in MealClockTimes}

DistinctKeys(meal_times) ==
    \A i, j \in 1..Len(meal_times) : i # j => meal_times[i][1] # meal_times[j][1]

MealProfiles ==
    {[user_id |-> "u1", activity_type |-> "indoor", meal_times |-> m,
      preferred_cuisines |-> <<>>] :
        m \in {x \in MealTimesUpTo(MaxMeals) : DistinctKeys(x)}}

NextMeal ==
    \/ /\ reply.op = "none" /\ Quiet
       /\ \E r \in Reqs, h \in TermsHours, p \in MealProfiles :
             get_recommendations(r, p, LocCentre, h)
    \/ \E r \in Reqs :
          recommendations_weather_returns(r, [kind |-> "ok", weather |-> "sunny",
                                              temperature |-> 20])
    \/ \E r \in Reqs : recommendations_meal_returns(r, [kind |-> "ZERO_RESULTS"])
    \/ \E r \in Reqs : recommendations_activity_returns(r, [kind |-> "ZERO_RESULTS"])

SpecMeal == Init /\ [][NextMeal]_vars

\* The hour of an HH:MM time
HourOf(time) == 10 * DigitVal[time[1]] + DigitVal[time[2]]

\* The entries of meal_times whose hour is within one hour of hour
Matching(hour, meal_times) ==
    {i \in 1..Len(meal_times) :
        hour - 1 <= HourOf(meal_times[i][2]) /\ HourOf(meal_times[i][2]) <= hour + 1}

\* Request q is past the meal match
MealMatched(q) ==
    q.op = "get_recommendations" /\ q.pc \in {"gr_meal", "gr_activity", "done"}

\* C32: the meal matched for a request is none when no declared meal's
\* hour is within one hour of the request's hour, and otherwise the first
\* declared of the meals that are.
C32_FirstDeclaredMealWins ==
    \A q \in {req[r] : r \in Reqs} \cup {reply} :
       MealMatched(q) =>
          LET m == Matching(q.current_hour, q.preferences.meal_times)
          IN IF m = {} THEN q.meal_type = None
             ELSE q.meal_type =
                     q.preferences.meal_times[CHOOSE i \in m : \A j \in m : i <= j][1]

\* At 11 h with lunch at 12:00 declared before breakfast at 11:00, both
\* match and the meal is lunch
C32_Witness ==
    /\ MealMatched(req[1])
    /\ req[1].current_hour = 11
    /\ req[1].preferences.meal_times =
          << <<"lunch", HHMM("1", "2")>>, <<"breakfast", HHMM("1", "1")>> >>
    /\ Matching(11, req[1].preferences.meal_times) = {1, 2}
    /\ req[1].meal_type = "lunch"

-----------------------------------------------------------------------------
(* Messages from the client: ping and other texts on up to two sockets of *)
(* one user, after context updates that have filled the stores            *)

ClientTexts == {"ping", "hello"}
PingHours == {10, 12}

NextPing ==
    \/ save_preferences(PrefsLunch("u1"))
    \/ /\ clock < MaxClockPing /\ Quiet
       /\ \A c \in Chans : wsh[c].pc = "new"
       /\ "u1" \notin DOMAIN user_notifications
       /\ \E r \in Reqs, h \in PingHours :
             /\ ("u1" \in DOMAIN user_last_context) = (h = 12)
             /\ update_user_context(r, "u1", <<>>, h)
    \/ \E c \in Chans :
          /\ \A c2 \in Chans : c2 < c => wsh[c2].pc \notin {"new", "welcome"}
          /\ "u1" \in DOMAIN user_notifications
          /\ websocket_connect(c, "u1")
    \/ \E c \in Chans : websocket_welcome_returns(c)
    \/ /\ clock < MaxClockPing
       /\ \E c \in Chans, data \in ClientTexts : client_send(c, data)
    \/ \E c \in Chans : websocket_receive(c)
    \/ \E c \in Chans : websocket_pong_returns(c)
    \/ \E c \in Chans : client_close(c)
    \/ \E c \in Chans : websocket_disconnected(c)

SpecPing == Init /\ [][NextPing]_vars

\* The event loop resumes a handler whose awaited call has completed
SpecPingFair ==
    /\ SpecPing
    /\ \A c \in Chans : /\ WF_vars(websocket_receive(c))
                        /\ WF_vars(websocket_pong_returns(c))
                        /\ WF_vars(websocket_welcome_returns(c))

Pongs(c) == Cardinality({i \in 1..Len(chan[c].delivered) :
                            chan[c].delivered[i].type = "pong"})


\* The number of pong frames among the frames sent on a socket
PongFrames(frames) ==
    Cardinality({i \in 1..Len(frames) : frames[i].type = "pong"})

\* A step takes the oldest message out of socket c
Taken(c) ==
    /\ chan[c].inbox # <<>>
    /\ chan'[c].inbox = Tail(chan[c].inbox)

\* A step that takes a ping from an open socket sends one frame, a pong,
\* on that socket and none on another
PingAnswered(c) ==
    (Taken(c) /\ Head(chan[c].inbox) = "ping" /\ chan[c].open) =>
        /\ Len(chan'[c].delivered) = Len(chan[c].delivered) + 1
        /\ SubSeq(chan'[c].delivered, 1, Len(chan[c].delivered)) = chan[c].delivered
        /\ chan'[c].delivered[Len(chan'[c].delivered)].type = "pong"
        /\ \A c2 \in Chans \ {c} : chan'[c2].delivered = chan[c2].delivered

\* A step that takes any other text sends nothing and leaves the stores and
\* the registry as they are
OtherIgnored(c) ==
    (Taken(c) /\ Head(chan[c].inbox) # "ping") =>
        /\ \A c2 \in Chans : chan'[c2].delivered = chan[c2].delivered
        /\ UNCHANGED <<user_preferences_store, user_last_context,
                       user_notifications, active_connections>>

\* A pong is sent only by the step that takes a ping from the same socket
PongOnlyForPing(c) ==
    PongFrames(chan'[c].delivered) # PongFrames(chan[c].delivered) =>
        /\ Taken(c)
        /\ Head(chan[c].inbox) = "ping"

\* C33: on an open socket each text "ping" taken by the handler is answered
\* by exactly one pong, appended to the frames of the same socket, so the
\* pongs follow the order of the pings; a pong is sent for nothing else; any
\* other text is taken without a reply and without a change to the context
\* store, the histories or the registry; and every message waiting in a
\* socket is taken unless the handler has ended.
C33_PingPong ==
    /\ [][\A c \in Chans : /\ PingAnswered(c)
                           /\ OtherIgnored(c)
                           /\ PongOnlyForPing(c)]_vars
    /\ \A c \in Chans :
          (chan[c].inbox # <<>>) ~> (chan[c].inbox = <<>> \/ wsh[c].pc = "closed")

\* Two pings of one socket have been answered by two pongs on it, while the
\* other socket of the user has sent no pong and the stores are filled
C33_Witness ==
    /\ Pongs(1) = 2
    /\ Pongs(2) = 0
    /\ wsh[2].pc = "receive"
    /\ chan[1].inbox = <<>>
    /\ chan[1].open
    /\ "u1" \in DOMAIN user_last_context
    /\ "u1" \in DOMAIN user_notifications
    /\ Len(user_notifications["u1"]) > 0


-----------------------------------------------------------------------------
(* A failed push and a socket registered meanwhile *)

\* Request r resumes from a push that raised
PushFails(r) ==
    /\ ~req[r].ok
    /\ context_send_returns(r) \/ preferences_send_returns(r)

\* C34: when a push that was attempted on one socket fails, a socket that
\* was registered for the user while that push was in flight stays the
\* user's entry in the registry.
C34_FailureKeepsNewChannel ==
    [][\A r \in Reqs, c \in Chans :
          (/\ PushFails(r)
           /\ req[r].ws # c
           /\ IsEntry(active_connections, req[r].user_id, c))
             => IsEntry(active_connections', req[r].user_id, c)]_vars


-----------------------------------------------------------------------------
(* The handler of a replaced socket ends *)

\* C35: when the handler of a socket sees its client gone, a socket the
\* user registered later stays the user's entry in the registry.
C35_ReconnectSurvivesOldDisconnect ==
    [][\A c \in Chans, c2 \in Chans :
          (/\ c2 # c
           /\ websocket_disconnected(c)
           /\ IsEntry(active_connections, wsh[c].user_id, c2))
             => IsEntry(active_connections', wsh[c].user_id, c2)]_vars


-----------------------------------------------------------------------------
(* Stores of a deleted user *)

\* C36: every user with a stored context snapshot or a notification
\* history has a stored preference profile.
C36_StoresImplyProfile ==
    (DOMAIN user_last_context) \cup (DOMAIN user_notifications)
        \subseteq DOMAIN user_preferences_store


-----------------------------------------------------------------------------
(* A located update after an update without a location *)

\* The last request that returned was a context update that stored a snapshot
Stored ==
    /\ reply.op = "update_user_context"
    /\ reply.resp.status = 200

PlaceEvents == {"location_change", "weather_change", "temperature_change"}

\* C37: every stored snapshot has an hour; an update without a location
\* stores a snapshot of the hour alone; and an update diffed against such a
\* snapshot yields no location_change, weather_change or temperature_change,
\* whatever location, weather and temperature it carries.
C37_ComparedWithPrecedingOnly ==
    /\ \A u \in DOMAIN user_last_context : "time_hour" \in DOMAIN user_last_context[u]
    /\ (Stored /\ "location" \notin DOMAIN reply.new_context)
          => user_last_context[reply.user_id] = [time_hour |-> reply.new_context.time_hour]
    /\ (Diffed /\ "location" \notin DOMAIN reply.old_context)
          => /\ DOMAIN reply.old_context = {"time_hour"}
             /\ \A type \in PlaceEvents : ~HasEvent(reply.resp.notifications, type)

\* An update at the northern point in rain at 26 degrees was diffed against
\* an hour-only snapshot of the same time period and produced no event
C37_Witness ==
    /\ Diffed
    /\ reply.old_context = [time_hour |-> 10]
    /\ reply.new_context = [location |-> LocNorth, weather |-> "rainy",
                            temperature |-> 26, time_hour |-> 10]
    /\ reply.resp.notifications = <<>>
    /\ user_last_context["u1"] = reply.new_context


-----------------------------------------------------------------------------
(* PUT /api/preferences: a known user u1 with a snapshot, a history and   *)
(* up to one socket, and a user u2 without a profile                      *)

PutUsers == {"u1", "u2"}

PrefsLunchItalian(user_id) ==
    [PrefsLunch(user_id) EXCEPT !.preferred_cuisines = <<"Italian">>]

PrefsBoth(user_id) ==
    [PrefsLunch(user_id) EXCEPT !.activity_type = "both"]

PutBodies(user_id) ==
    {PrefsLunch(user_id), PrefsLunchItalian(user_id), PrefsNoMeal(user_id),
     PrefsBoth(user_id)}

NextPut ==
    \/ save_preferences(PrefsLunch("u1"))
    \/ /\ clock < MaxClockPut /\ Quiet
       /\ "u1" \notin DOMAIN user_notifications
       /\ \E r \in Reqs, h \in PushHours :
             /\ ("u1" \in DOMAIN user_last_context) = (h = 12)
             /\ update_user_context(r, "u1", <<>>, h)
    \/ \E r \in Reqs : context_send_returns(r)
    \/ /\ clock < MaxClockPut
       /\ \E r \in Reqs, u \in PutUsers :
             \E p \in PutBodies(u) : update_preferences(r, u, p)
    \/ \E r \in Reqs : preferences_send_returns(r)
    \/ websocket_connect(1, "u1")
    \/ websocket_welcome_returns(1)
    \/ client_close(1)
    \/ websocket_disconnected(1)

SpecPut == Init /\ [][NextPut]_vars


\* The body's activity type, meal times or cuisines differ from the profile
Differs(stored, p) ==
    \/ stored.activity_type # p.activity_type
    \/ \E i \in 1..Len(stored.meal_times) :
          \A j \in 1..Len(p.meal_times) : p.meal_times[j] # stored.meal_times[i]
    \/ \E j \in 1..Len(p.meal_times) :
          \A i \in 1..Len(stored.meal_times) : p.meal_times[j] # stored.meal_times[i]
    \/ stored.preferred_cuisines # p.preferred_cuisines

\* The history of user_id with one more event, within the history limit
Appended(notifs, user_id, notification) ==
    LET before == IF user_id \in DOMAIN notifs THEN notifs[user_id] ELSE <<>>
        all == Append(before, notification)
    IN  IF Len(all) <= NOTIFICATION_HISTORY_LIMIT THEN all
        ELSE SubSeq(all, Len(all) - NOTIFICATION_HISTORY_LIMIT + 1, Len(all))

IsPreferencesUpdated(notifications) ==
    /\ Len(notifications) = 1
    /\ notifications[1].type = "preferences_updated"

\* What a PUT with body p for user_id does in the step that starts it
PutStep(r, user_id, p) ==
    LET known == user_id \in DOMAIN user_preferences_store
        q == AfterStep(r)
    IN  /\ user_last_context' = user_last_context
        /\ ~UserPreferencesValid(p) =>
              /\ reply'.resp.status = 422
              /\ UNCHANGED <<user_preferences_store, user_notifications,
                             active_connections, chan, generated>>
        /\ (UserPreferencesValid(p) /\ ~known) =>
              /\ reply'.resp.status = 404
              /\ UNCHANGED <<user_preferences_store, user_notifications,
                             active_connections, chan, generated>>
        /\ (UserPreferencesValid(p) /\ known
                /\ ~Differs(user_preferences_store[user_id], p)) =>
              /\ reply'.resp.status = 200
              /\ ~reply'.resp.notification_sent
              /\ UNCHANGED <<user_notifications, active_connections, chan, generated>>
        /\ (UserPreferencesValid(p) /\ known
                /\ Differs(user_preferences_store[user_id], p)) =>
              /\ IsPreferencesUpdated(q.notifications)
              /\ IF user_id \in DOMAIN active_connections
                 THEN \* pushed on the registered socket; stored when the push is over
                      /\ req'[r].pc = "pu_send"
                      /\ req'[r].ws = active_connections[user_id]
                      /\ chan[req'[r].ws].open =>
                            chan'[req'[r].ws].delivered =
                               Append(chan[req'[r].ws].delivered, q.notifications[1])
                      /\ user_notifications' = user_notifications
                 ELSE /\ chan' = chan
                      /\ reply'.resp.notification_sent
                      /\ user_id \in DOMAIN user_notifications'
                      /\ user_notifications'[user_id] =
                            Appended(user_notifications, user_id, q.notifications[1])

\* What the PUT does when its push is over
PutResumes(r) ==
    preferences_send_returns(r) =>
        /\ user_last_context' = user_last_context
        /\ chan' = chan
        /\ IsPreferencesUpdated(req[r].notifications)
        /\ reply'.resp.notification_sent
        /\ req[r].user_id \in DOMAIN user_notifications'
        /\ user_notifications'[req[r].user_id] =
              Appended(user_notifications, req[r].user_id, req[r].notifications[1])
        /\ \A u \in DOMAIN user_notifications' \ {req[r].user_id} :
              /\ u \in DOMAIN user_notifications
              /\ user_notifications'[u] = user_notifications[u]

\* C38: a PUT for a known user whose activity type, meal times or cuisines
\* differ from the stored profile generates one preferences_updated event,
\* pushes it on the user's registered socket if there is one and appends it
\* to the user's history; a PUT with the stored values generates no event
\* and leaves the history as it is; a PUT for an unknown user answers 404
\* and a body that fails validation 422, both changing nothing; and no PUT
\* changes a stored context snapshot.
C38_PreferencesUpdatedIff ==
    [][\A r \in Reqs :
          /\ \A u \in PutUsers : \A p \in PutBodies(u) :
                update_preferences(r, u, p) => PutStep(r, u, p)
          /\ PutResumes(r)]_vars

\* A PUT that changed the cuisines of u1, who has a context snapshot, a
\* context event in the history and an open socket: the event was pushed on
\* the socket and is the last of the history
C38_Witness ==
    /\ reply.op = "update_preferences"
    /\ reply.resp.status = 200
    /\ reply.resp.changes_detected = <<"cuisine preferences updated">>
    /\ reply.results = << [ws |-> 1, ok |-> TRUE] >>
    /\ "u1" \in DOMAIN user_last_context
    /\ Len(user_notifications["u1"]) > 1
    /\ user_notifications["u1"][1].type = "time_period_change"
    /\ user_notifications["u1"][Len(user_notifications["u1"])] = reply.notifications[1]
    /\ chan[1].delivered[Len(chan[1].delivered)] = reply.notifications[1]


-----------------------------------------------------------------------------
(* GET /api/notifications: histories of every length up to the limit of   *)
(* 50 and beyond, read with limits below, at and above their length      *)

GetHours == {10, 14}
GetLimits == {0, 1, 20, 50, 51, 100, 101}

NextGet ==
    \/ save_preferences(PrefsNoMeal("u1"))
    \/ /\ clock < MaxClockGet
       /\ \E h \in GetHours : update_user_context(1, "u1", <<>>, h)
    \/ \E u \in {"u1", "u2"}, limit \in GetLimits : get_notification_history(u, limit)
    \/ clear_notification_history("u1")

SpecGet == Init /\ [][NextGet]_vars

\* The stored history of user_id; none is an empty one
History(user_id) ==
    IF user_id \in DOMAIN user_notifications THEN user_notifications[user_id] ELSE <<>>

\* What a GET with an accepted limit answers
GetAnswer(user_id, limit, resp) ==
    LET n == Len(History(user_id))
        k == Min(limit, n)
        g == Len(generated[user_id])
    IN  /\ resp.status = 200
        /\ n <= NOTIFICATION_HISTORY_LIMIT
        /\ resp.total = n
        /\ resp.showing = k
        /\ Len(resp.notifications) = k
        /\ \A i \in 1..k : /\ resp.notifications[i] = History(user_id)[n - k + i]
                           /\ resp.notifications[i] = generated[user_id][g - k + i]

\* C39: GET notifications(user_id, limit) answers with the most recent
\* min(limit, n) events of the user's history in the order they were
\* generated and with total = n, the length of the stored history, which is
\* at most 50; a limit outside 1..100 is answered 422; the request changes
\* no history and no other store.
C39_ReadsRecentTail ==
    [][\A u \in {"u1", "u2"}, limit \in GetLimits :
          get_notification_history(u, limit)
             => /\ IF 1 <= limit /\ limit <= 100
                   THEN GetAnswer(u, limit, reply'.resp)
                   ELSE reply'.resp.status = 422
                /\ UNCHANGED <<user_preferences_store, user_last_context,
                               user_notifications, active_connections, chan,
                               generated>>]_vars

\* The last 20 of a full history of 50 events, of 52 generated, were read
C39_Witness ==
    /\ reply.op = "get_notification_history"
    /\ reply.resp.status = 200
    /\ reply.resp.total = 50
    /\ reply.resp.showing = 20
    /\ Len(generated["u1"]) = 52
    /\ reply.resp.notifications[1] = generated["u1"][33]
    /\ reply.resp.notifications[20] = generated["u1"][52]
    /\ reply.resp.notifications[20] # reply.resp.notifications[1]

=============================================================================
